---- MODULE Spec2Model ----
(***************************************************************************)
(* A model of zylog: the log-line formatter (formatter package), the       *)
(* colour configuration (colors package), the options and the two backend  *)
(* adapters (logrus formatter LogLine.Format, slog handler                 *)
(* SLogHandler.Handle).                                                    *)
(*                                                                         *)
(* Text is a sequence of tokens.  A token is a string standing for one     *)
(* character, for a word of a message, key, value or function name (a run  *)
(* of characters without spaces or punctuation of the line format), or for *)
(* one terminal escape sequence written by the colour library.  Level tags *)
(* and numbers are spelled character by character, so widths are counted.  *)
(* A Go pointer is a sequence of length at most one: <<>> is nil, <<v>>    *)
(* points to v.                                                            *)
(***************************************************************************)
EXTENDS Integers, Sequences, FiniteSets, TLC

VARIABLES
    NoColor,    \* color.NoColor, the process-wide switch of the colour library
    std,        \* the global logrus logger: its formatter, level, ReportCaller
    slogH,      \* the SLogHandler behind the default slog logger (nil pointer before setup)
    call,       \* the operation that ran last, with its arguments
    result      \* what that operation produced: a line, a value or a panic

vars == <<NoColor, std, slogH, call, result>>

----------------------------------------------------------------------------
(* Bounds of the model *)

MaxPad == 8         \* largest PadAmount tried
MaxAttrs == 2       \* most attributes on one record

----------------------------------------------------------------------------
(* Generic helpers on sequences *)

Nil == <<>>
Ptr(v) == <<v>>

RECURSIVE Spaces(_)
Spaces(n) == IF n <= 0 THEN <<>> ELSE <<" ">> \o Spaces(n - 1)

RECURSIVE Concat(_)
Concat(ss) == IF ss = <<>> THEN <<>> ELSE Head(ss) \o Concat(Tail(ss))

Range(s) == {s[i] : i \in 1..Len(s)}

----------------------------------------------------------------------------
(* github.com/fatih/color as the formatter uses it *)

Reset == "0"
FgRed == "31"
FgGreen == "32"
FgYellow == "33"
FgCyan == "36"
FgHiBlack == "90"
FgHiRed == "91"
FgHiGreen == "92"
FgHiYellow == "93"
FgHiMagenta == "95"
FgHiCyan == "96"
FgHiWhite == "97"
BgYellow == "43"
BgBlue == "44"

Attributes ==
    {Reset, FgRed, FgGreen, FgYellow, FgCyan, FgHiBlack, FgHiRed, FgHiGreen,
     FgHiYellow, FgHiMagenta, FgHiCyan, FgHiWhite, BgYellow, BgBlue}

\* The escape sequence that switches the attributes on: ESC [ a ; b m
EscOn(attrs) ==
    IF Len(attrs) = 1 THEN "\\x1b[" \o attrs[1] \o "m"
    ELSE "\\x1b[" \o attrs[1] \o ";" \o attrs[2] \o "m"

\* The escape sequence that switches them off again
EscOff == "\\x1b[0m"

EscapeTokens ==
    {EscOff} \cup {EscOn(<<a>>) : a \in Attributes}
             \cup {EscOn(<<a, b>>) : a \in Attributes, b \in Attributes}

IsEscape(tok) == tok \in EscapeTokens

\* Sprint as it would be if it did not consult color.NoColor
SprintAlways(attrs, s, noColor) == <<EscOn(attrs)>> \o s \o <<EscOff>>

\* color.New(attrs...).Sprint(s): wrapped in escapes unless color.NoColor is set
Sprint(attrs, s, noColor) ==
    IF noColor THEN s ELSE <<EscOn(attrs)>> \o s \o <<EscOff>>

\* The text with the escape sequences removed: what is visible on a terminal
RECURSIVE Visible(_)
Visible(s) ==
    IF s = <<>> THEN <<>>
    ELSE IF IsEscape(Head(s)) THEN Visible(Tail(s))
    ELSE <<Head(s)>> \o Visible(Tail(s))

HasEscape(s) == \E i \in 1..Len(s) : IsEscape(s[i])

----------------------------------------------------------------------------
(* package colors: Color, Colours, Default, ApplyColor *)

Color(fg, bg) == [Fg |-> fg, Bg |-> bg]

Elements ==
    {"Timestamp", "LevelTrace", "LevelDebug", "LevelInfo", "LevelWarn",
     "LevelWarning", "LevelError", "LevelFatal", "LevelPanic", "Message",
     "Arrow", "CallerFunction", "CallerLine", "AttrKey", "AttrValue"}

\* colors.Default(): a pointer to a fresh Colours value
ColorsDefault ==
    Ptr([Timestamp      |-> Ptr(Color(FgHiBlack, Reset)),
         LevelTrace     |-> Ptr(Color(FgHiMagenta, Reset)),
         LevelDebug     |-> Ptr(Color(FgHiCyan, Reset)),
         LevelInfo      |-> Ptr(Color(FgHiGreen, Reset)),
         LevelWarn      |-> Ptr(Color(FgHiYellow, Reset)),
         LevelWarning   |-> Ptr(Color(FgHiYellow, Reset)),
         LevelError     |-> Ptr(Color(FgRed, Reset)),
         LevelFatal     |-> Ptr(Color(FgHiRed, Reset)),
         LevelPanic     |-> Ptr(Color(FgHiWhite, Reset)),
         Message        |-> Ptr(Color(FgGreen, Reset)),
         Arrow          |-> Ptr(Color(FgCyan, Reset)),
         CallerFunction |-> Ptr(Color(FgHiYellow, Reset)),
         CallerLine     |-> Ptr(Color(FgYellow, Reset)),
         AttrKey        |-> Ptr(Color(FgYellow, Reset)),
         AttrValue      |-> Ptr(Color(FgHiYellow, Reset))])

\* ApplyColor as it would be if a nil colour meant a default colour
ApplyColorNilDefault(c, s, noColor) ==
    IF c = Nil THEN Sprint(<<FgHiBlack>>, s, noColor)
    ELSE IF c[1].Fg = Reset /\ c[1].Bg = Reset THEN s
    ELSE Sprint((IF c[1].Fg # Reset THEN <<c[1].Fg>> ELSE <<>>)
                \o (IF c[1].Bg # Reset THEN <<c[1].Bg>> ELSE <<>>), s, noColor)

\* ApplyColor as it would be without the test for Reset/Reset
ApplyColorNoSentinel(c, s, noColor) ==
    IF c = Nil THEN s
    ELSE Sprint(IF c[1].Bg # Reset THEN <<c[1].Fg, c[1].Bg>> ELSE <<c[1].Fg>>,
                s, noColor)

\* (c *Color).ApplyColor(s), reading color.NoColor
ApplyColor(c, s, noColor) ==
    IF c = Nil THEN s
    ELSE IF c[1].Fg = Reset /\ c[1].Bg = Reset THEN s
    ELSE LET attrs == (IF c[1].Fg # Reset THEN <<c[1].Fg>> ELSE <<>>)
                      \o (IF c[1].Bg # Reset THEN <<c[1].Bg>> ELSE <<>>)
         IN  IF Len(attrs) = 0 THEN s ELSE Sprint(attrs, s, noColor)

----------------------------------------------------------------------------
(* package level: the level tags *)

Trace == <<"T", "R", "A", "C", "E">>
Debug == <<"D", "E", "B", "U", "G">>
Info == <<"I", "N", "F", "O">>
Warn == <<"W", "A", "R", "N">>
Warning == <<"W", "A", "R", "N", "I", "N", "G">>
Error == <<"E", "R", "R", "O", "R">>
Fatal == <<"F", "A", "T", "A", "L">>
Panic == <<"P", "A", "N", "I", "C">>

LevelTags == {Trace, Debug, Info, Warn, Warning, Error, Fatal, Panic}

----------------------------------------------------------------------------
(* Go library functions the formatter calls: strings.ToUpper,              *)
(* strings.TrimSpace, fmt's %*s, %-*s and %d, time.Time.Format             *)

Lower == <<"a", "b", "c", "d", "e", "f", "g", "h", "i", "j", "k", "l", "m",
           "n", "o", "p", "q", "r", "s", "t", "u", "v", "w", "x", "y", "z">>
Upper == <<"A", "B", "C", "D", "E", "F", "G", "H", "I", "J", "K", "L", "M",
           "N", "O", "P", "Q", "R", "S", "T", "U", "V", "W", "X", "Y", "Z">>

UpperRune(c) ==
    IF \E i \in 1..Len(Lower) : Lower[i] = c
    THEN Upper[CHOOSE i \in 1..Len(Lower) : Lower[i] = c]
    ELSE c

ToUpper(s) == [i \in 1..Len(s) |-> UpperRune(s[i])]

WhiteSpace == {" ", "\t", "\n"}

RECURSIVE TrimLeft(_)
TrimLeft(s) ==
    IF s # <<>> /\ Head(s) \in WhiteSpace THEN TrimLeft(Tail(s)) ELSE s

RECURSIVE TrimRight(_)
TrimRight(s) ==
    IF s # <<>> /\ s[Len(s)] \in WhiteSpace
    THEN TrimRight(SubSeq(s, 1, Len(s) - 1)) ELSE s

TrimSpace(s) == TrimRight(TrimLeft(s))

\* %*s as it would be if the width were a maximum too
PadLeftCut(width, s) == SubSeq(Spaces(width - Len(s)) \o s, 1, width)

\* fmt.Sprintf("%*s", width, s): spaces on the left up to width, never cut
PadLeft(width, s) == Spaces(width - Len(s)) \o s

\* fmt.Sprintf("%-*s", width, s): spaces on the right up to width, never cut
PadRight(width, s) == s \o Spaces(width - Len(s))

Digits == <<"0", "1", "2", "3", "4", "5", "6", "7", "8", "9">>

\* fmt.Sprintf("%d", n) for n >= 0
RECURSIVE Itoa(_)
Itoa(n) ==
    IF n < 10 THEN <<Digits[n + 1]>>
    ELSE Itoa(n \div 10) \o <<Digits[(n % 10) + 1]>>

\* n in decimal with leading zeros up to w digits
ZeroPad(w, n) ==
    LET d == Itoa(n) IN [i \in 1..(w - Len(d)) |-> "0"] \o d

\* time.Time.Format(layout) for the four layouts the formatter knows
FormatTime(t, layout) ==
    LET date(sep) == ZeroPad(4, t.year) \o sep \o ZeroPad(2, t.month)
                     \o sep \o ZeroPad(2, t.day)
        clock(sep) == ZeroPad(2, t.hour) \o sep \o ZeroPad(2, t.minute)
                      \o sep \o ZeroPad(2, t.second)
        abs == IF t.offset < 0 THEN 0 - t.offset ELSE t.offset
        zone == IF t.offset = 0 THEN <<"Z">>
                ELSE <<IF t.offset < 0 THEN "-" ELSE "+">>
                     \o ZeroPad(2, abs \div 60) \o <<":">> \o ZeroPad(2, abs % 60)
    IN  CASE layout = "2006-01-02T15:04:05Z07:00" ->
                date(<<"-">>) \o <<"T">> \o clock(<<":">>) \o zone
          [] layout = "2006/01/02 15:04:05" ->
                date(<<"/">>) \o <<" ">> \o clock(<<":">>)
          [] layout = "20060102.150405" ->
                date(<<>>) \o <<".">> \o clock(<<>>)
          [] layout = "15:04:05" -> clock(<<":">>)

\* fmt's %v of an attribute value (logrus), Value.String() (slog)
SprintV(v) == IF v.kind = "int" THEN Itoa(v.n) ELSE v.s

----------------------------------------------------------------------------
(* package formatter: timestamp formats *)

TSUnset == 0
RFC3339 == 1
StandardTimestamp == 2
SimpleTimestamp == 3
TimeOnly == 4

TSSimple == "20060102.150405"
TSStandard == "2006/01/02 15:04:05"
TSTimeOnly == "15:04:05"
TimeRFC3339 == "2006-01-02T15:04:05Z07:00"

\* ToTimeFormat as it would be with the Standard layout as its default
ToTimeFormatStandardByDefault(f) ==
    CASE f = RFC3339 -> TimeRFC3339
      [] f = StandardTimestamp -> TSStandard
      [] f = SimpleTimestamp -> TSSimple
      [] f = TimeOnly -> TSTimeOnly
      [] OTHER -> TSStandard

\* TSFormat.ToTimeFormat
ToTimeFormat(f) ==
    CASE f = RFC3339 -> TimeRFC3339
      [] f = StandardTimestamp -> TSStandard
      [] f = SimpleTimestamp -> TSSimple
      [] f = TimeOnly -> TSTimeOnly
      [] OTHER -> TSSimple

----------------------------------------------------------------------------
(* package formatter, common.go: the element formatters that take the      *)
(* colour configuration.  colours is a non-nil pointer here: each of them  *)
(* dereferences it first, and LogLine.Format below panics on nil.          *)

\* The string literal of FormatArrow, rune by rune: a space, U+00E2 (a with
\* circumflex), U+2013 (en dash), U+00B6 (pilcrow), a space
ArrowText == <<" ", "U+00E2", "U+2013", "U+00B6", " ">>

FormatTimestamp(timestamp, colours, noColor) ==
    ApplyColor(colours[1].Timestamp, timestamp, noColor)

FormatMessage(message, colours, noColor) ==
    ApplyColor(colours[1].Message, message, noColor)

FormatArrow(colours, noColor) ==
    ApplyColor(colours[1].Arrow, ArrowText, noColor)

FormatCaller(function, line, colours, noColor) ==
    LET functionStr == ApplyColor(colours[1].CallerFunction, function, noColor)
        lineStr == ApplyColor(colours[1].CallerLine, Itoa(line), noColor)
    IN  <<" ", "[">> \o functionStr \o <<":">> \o lineStr \o <<"]">>

FormatAttrKey(key, colours, noColor) ==
    ApplyColor(colours[1].AttrKey, key, noColor)

FormatAttrValue(value, colours, noColor) ==
    ApplyColor(colours[1].AttrValue, value, noColor)

\* ColorLevel(lvl, padLevel, padAmount, padSide, colours): the padding step
\* The padding as it would be with the two sides exchanged
PadLevelTextSwapped(lvl, padLevel, padAmount, padSide) ==
    IF padLevel /\ padAmount > 0
    THEN IF padSide = "left" THEN PadRight(padAmount, lvl)
         ELSE PadLeft(padAmount, lvl)
    ELSE lvl

PadLevelText(lvl, padLevel, padAmount, padSide) ==
    IF padLevel /\ padAmount > 0
    THEN IF padSide = "left" THEN PadLeft(padAmount, lvl)
         ELSE PadRight(padAmount, lvl)
    ELSE lvl

\* The switch as it would be without the case for errors.Fatal
LevelColorWithoutFatal(trimmedLvl, colours) ==
    CASE trimmedLvl = Trace -> <<"some", colours[1].LevelTrace>>
      [] trimmedLvl = Debug -> <<"some", colours[1].LevelDebug>>
      [] trimmedLvl = Info -> <<"some", colours[1].LevelInfo>>
      [] trimmedLvl = Warn \/ trimmedLvl = Warning -> <<"some", colours[1].LevelWarn>>
      [] trimmedLvl = Error -> <<"some", colours[1].LevelError>>
      [] trimmedLvl = Panic -> <<"some", colours[1].LevelPanic>>
      [] OTHER -> <<"some", Nil>>

\* The switch as it would be with a case of its own for errors.Warning
LevelColorOwnWarning(trimmedLvl, colours) ==
    CASE trimmedLvl = Trace -> <<"some", colours[1].LevelTrace>>
      [] trimmedLvl = Debug -> <<"some", colours[1].LevelDebug>>
      [] trimmedLvl = Info -> <<"some", colours[1].LevelInfo>>
      [] trimmedLvl = Warn -> <<"some", colours[1].LevelWarn>>
      [] trimmedLvl = Warning -> <<"some", colours[1].LevelWarning>>
      [] trimmedLvl = Error -> <<"some", colours[1].LevelError>>
      [] trimmedLvl = Fatal -> <<"some", colours[1].LevelFatal>>
      [] trimmedLvl = Panic -> <<"some", colours[1].LevelPanic>>
      [] OTHER -> <<"none">>

\* ColorLevel: the colour the switch on the trimmed text selects
\* (<<"none">> for the default branch, which returns before any colour is read)
LevelColor(trimmedLvl, colours) ==
    CASE trimmedLvl = Trace -> <<"some", colours[1].LevelTrace>>
      [] trimmedLvl = Debug -> <<"some", colours[1].LevelDebug>>
      [] trimmedLvl = Info -> <<"some", colours[1].LevelInfo>>
      [] trimmedLvl = Warn \/ trimmedLvl = Warning -> <<"some", colours[1].LevelWarn>>
      [] trimmedLvl = Error -> <<"some", colours[1].LevelError>>
      [] trimmedLvl = Fatal -> <<"some", colours[1].LevelFatal>>
      [] trimmedLvl = Panic -> <<"some", colours[1].LevelPanic>>
      [] OTHER -> <<"none">>

\* ColorLevel dereferences colours only in the branches of a known level
ColorLevelPanics(lvl, padLevel, padAmount, padSide, colours) ==
    /\ colours = Nil
    /\ TrimSpace(PadLevelText(lvl, padLevel, padAmount, padSide)) \in LevelTags

ColorLevel(lvl, padLevel, padAmount, padSide, colours, noColor) ==
    LET padded == PadLevelText(lvl, padLevel, padAmount, padSide)
        trimmedLvl == TrimSpace(padded)
    IN  IF trimmedLvl \notin LevelTags THEN padded
        ELSE ApplyColor(LevelColor(trimmedLvl, colours)[2], padded, noColor)

----------------------------------------------------------------------------
(* The element formatters with the built-in colours, as the slog handler   *)
(* calls them: one argument each, the colour fixed in the code             *)

FormatTimestampFixed(timestamp, noColor) == Sprint(<<FgHiBlack>>, timestamp, noColor)

FormatMessageFixed(message, noColor) == Sprint(<<FgGreen>>, message, noColor)

FormatArrowFixed(noColor) == Sprint(<<FgCyan>>, ArrowText, noColor)

FormatCallerFixed(function, line, noColor) ==
    <<" ", "[">> \o Sprint(<<FgHiYellow>>, function, noColor) \o <<":">>
    \o Sprint(<<FgYellow>>, Itoa(line), noColor) \o <<"]">>

FormatAttrKeyFixed(key, noColor) == Sprint(<<FgYellow>>, key, noColor)

FormatAttrValueFixed(value, noColor) == Sprint(<<FgHiYellow>>, value, noColor)

ColorLevelFixed(lvl, padLevel, padAmount, padSide, noColor) ==
    LET padded == PadLevelText(lvl, padLevel, padAmount, padSide)
        t == TrimSpace(padded)
    IN  CASE t = Trace -> Sprint(<<FgHiMagenta>>, padded, noColor)
          [] t = Debug -> Sprint(<<FgHiCyan>>, padded, noColor)
          [] t = Info -> Sprint(<<FgHiGreen>>, padded, noColor)
          [] t = Warn \/ t = Warning -> Sprint(<<FgHiYellow>>, padded, noColor)
          [] t = Error -> Sprint(<<FgRed>>, padded, noColor)
          [] t = Fatal -> Sprint(<<FgHiRed>>, padded, noColor)
          [] t = Panic -> Sprint(<<FgHiWhite>>, padded, noColor)
          [] OTHER -> padded

----------------------------------------------------------------------------
(* logrus as the formatter sees it *)

LogrusLevels == <<"panic", "fatal", "error", "warning", "info", "debug", "trace">>

\* logrus.Level.String(), rune by rune
LogrusLevelString(l) ==
    CASE l = "panic" -> <<"p", "a", "n", "i", "c">>
      [] l = "fatal" -> <<"f", "a", "t", "a", "l">>
      [] l = "error" -> <<"e", "r", "r", "o", "r">>
      [] l = "warning" -> <<"w", "a", "r", "n", "i", "n", "g">>
      [] l = "info" -> <<"i", "n", "f", "o">>
      [] l = "debug" -> <<"d", "e", "b", "u", "g">>
      [] l = "trace" -> <<"t", "r", "a", "c", "e">>

\* The rank of a logrus level: PanicLevel is 0, TraceLevel is 6
LogrusRank(l) == (CHOOSE i \in 1..Len(LogrusLevels) : LogrusLevels[i] = l) - 1

\* logrus.ParseLevel: the level names it accepts ("warn" is "warning")
ParseLevelOk(name) == name \in Range(LogrusLevels) \cup {"warn"}
ParseLevel(name) == IF name = "warn" THEN "warning" ELSE name

\* Logger.IsLevelEnabled
IsLevelEnabled(loggerLevel, l) == LogrusRank(loggerLevel) >= LogrusRank(l)

----------------------------------------------------------------------------
(* LogLine.Format *)

\* The attribute loop as it would be with ", " after every item
RECURSIVE JoinItemsTrailing(_, _)
JoinItemsTrailing(items, first) ==
    IF items = <<>> THEN <<>>
    ELSE Head(items) \o <<",", " ">> \o JoinItemsTrailing(Tail(items), FALSE)

\* The attribute loop: items joined by ", "
RECURSIVE JoinItems(_, _)
JoinItems(items, first) ==
    IF items = <<>> THEN <<>>
    ELSE (IF ~first THEN <<",", " ">> ELSE <<>>) \o Head(items)
         \o JoinItems(Tail(items), FALSE)

\* A nil Colours pointer is dereferenced by FormatTimestamp, the first call;
\* entry.Caller is dereferenced when the logger reports callers
LogLineFormatPanics(f, entry, reportCaller) ==
    \/ f.Colours = Nil
    \/ reportCaller /\ entry.Caller = Nil

\* Format: the arrow and the message, only for a message that is not empty
FormatMessagePart(entry, colours, noColor) ==
    IF entry.Message # <<>>
    THEN FormatArrow(colours, noColor) \o FormatMessage(entry.Message, colours, noColor)
    ELSE <<>>

\* The texts Format writes to its buffer, one after the other.
\* order is the order in which range entry.Data yields the keys of the map
LogLineFormatParts(f, entry, reportCaller, order, noColor) ==
    LET timestamp == FormatTimestamp(
                         FormatTime(entry.Time, ToTimeFormat(f.TimestampFormat)),
                         f.Colours, noColor)
        level == ColorLevel(ToUpper(LogrusLevelString(entry.Level)), f.PadLevel,
                            f.PadAmount, f.PadSide, f.Colours, noColor)
        caller == IF reportCaller
                  THEN FormatCaller(entry.Caller[1].Function, entry.Caller[1].Line,
                                    f.Colours, noColor)
                  ELSE <<>>
        message == FormatMessagePart(entry, f.Colours, noColor)
        item(key) == FormatAttrKey(key, f.Colours, noColor) \o <<"=", "{">>
                     \o FormatAttrValue(SprintV(entry.Data[key]), f.Colours, noColor)
                     \o <<"}">>
        data == IF Cardinality(DOMAIN entry.Data) > 0
                THEN f.MsgSeparator
                     \o JoinItems([i \in 1..Len(order) |-> item(order[i])], TRUE)
                ELSE <<>>
    IN  <<timestamp \o <<" ">> \o level, caller, message, data, <<"\n">>>>

\* The bytes Format returns: the content of the buffer
LogLineFormat(f, entry, reportCaller, order, noColor) ==
    Concat(LogLineFormatParts(f, entry, reportCaller, order, noColor))

----------------------------------------------------------------------------
(* SLogHandler *)

SlogLevelDebug == -4
SlogLevelInfo == 0
SlogLevelWarn == 4
SlogLevelError == 8

\* slogLevelToString as it would be with <= in place of <
slogLevelToStringInclusive(lvl) ==
    CASE lvl <= SlogLevelDebug -> Trace
      [] lvl > SlogLevelDebug /\ lvl <= SlogLevelInfo -> Debug
      [] lvl > SlogLevelInfo /\ lvl <= SlogLevelWarn -> Info
      [] lvl > SlogLevelWarn /\ lvl <= SlogLevelError -> Warn
      [] lvl > SlogLevelError /\ lvl <= SlogLevelError + 4 -> Error
      [] lvl > SlogLevelError + 4 /\ lvl <= SlogLevelError + 8 -> Fatal
      [] OTHER -> Panic

slogLevelToString(lvl) ==
    CASE lvl < SlogLevelDebug -> Trace
      [] lvl >= SlogLevelDebug /\ lvl < SlogLevelInfo -> Debug
      [] lvl >= SlogLevelInfo /\ lvl < SlogLevelWarn -> Info
      [] lvl >= SlogLevelWarn /\ lvl < SlogLevelError -> Warn
      [] lvl >= SlogLevelError /\ lvl < SlogLevelError + 4 -> Error
      [] lvl >= SlogLevelError + 4 /\ lvl < SlogLevelError + 8 -> Fatal
      [] OTHER -> Panic

\* parseSlogLevel as it would be with Debug for a name it does not know
parseSlogLevelDebugByDefault(levelStr) ==
    CASE levelStr = "trace" -> SlogLevelDebug - 1
      [] levelStr = "debug" -> SlogLevelDebug
      [] levelStr = "info" -> SlogLevelInfo
      [] levelStr \in {"warn", "warning"} -> SlogLevelWarn
      [] levelStr = "error" -> SlogLevelError
      [] levelStr = "fatal" -> SlogLevelError + 4
      [] levelStr = "panic" -> SlogLevelError + 8
      [] OTHER -> SlogLevelDebug

\* parseSlogLevel(strings.ToLower(levelStr)); the names here are lower case
parseSlogLevel(levelStr) ==
    CASE levelStr = "trace" -> SlogLevelDebug - 1
      [] levelStr = "debug" -> SlogLevelDebug
      [] levelStr = "info" -> SlogLevelInfo
      [] levelStr \in {"warn", "warning"} -> SlogLevelWarn
      [] levelStr = "error" -> SlogLevelError
      [] levelStr = "fatal" -> SlogLevelError + 4
      [] levelStr = "panic" -> SlogLevelError + 8
      [] OTHER -> SlogLevelInfo

\* Enabled as it would be with > in place of >=
EnabledAbove(h, lvl) == lvl > parseSlogLevel(h.opts.Level)

Enabled(h, lvl) == lvl >= parseSlogLevel(h.opts.Level)

\* strings.Join(h.groups, ".") + "."
RECURSIVE JoinGroups(_)
JoinGroups(groups) ==
    IF groups = <<>> THEN <<>>
    ELSE IF Len(groups) = 1 THEN Head(groups)
    ELSE Head(groups) \o <<".">> \o JoinGroups(Tail(groups))

appendAttr(h, attr, noColor) ==
    LET prefix == IF Len(h.groups) > 0 THEN JoinGroups(h.groups) \o <<".">> ELSE <<>>
        key == prefix \o attr.Key
        value == SprintV(attr.Value)
    IN  FormatAttrKeyFixed(key, noColor) \o <<"=", "{">>
        \o FormatAttrValueFixed(value, noColor) \o <<"}">>

\* The message part as it would be without the test for an empty message
HandleMessagePartAlways(r, noColor) ==
    FormatArrowFixed(noColor) \o FormatMessageFixed(r.Message, noColor)

\* Handle: the arrow and the message, only for a message that is not empty
HandleMessagePart(r, noColor) ==
    IF r.Message # <<>>
    THEN FormatArrowFixed(noColor) \o FormatMessageFixed(r.Message, noColor)
    ELSE <<>>

\* The caller as it would be written without the test of ReportCaller
HandleCallerPartAnyway(h, r, noColor) ==
    IF r.PC # Nil
    THEN FormatCallerFixed(r.PC[1].Function, r.PC[1].Line, noColor)
    ELSE <<>>

\* Handle: the caller, when reporting is on and the record has a program
\* counter. r.PC is a pointer to the frame of the call site, nil for PC = 0.
HandleCallerPart(h, r, noColor) ==
    IF h.opts.ReportCaller /\ r.PC # Nil
    THEN FormatCallerFixed(r.PC[1].Function, r.PC[1].Line, noColor)
    ELSE <<>>

\* The texts of Handle as they would be without the closing newline
HandlePartsWithoutNewline(h, r, noColor) ==
    LET timestampStr == FormatTime(r.Time, ToTimeFormat(h.opts.TimestampFormat))
        levelStr == slogLevelToString(r.Level)
        levelFormatted == ColorLevelFixed(levelStr, h.opts.PadLevel,
                                          h.opts.PadAmount, h.opts.PadSide, noColor)
        all == h.attrs \o r.Attrs
        attrs == IF Len(all) > 0
                 THEN h.opts.MsgSeparator
                      \o JoinItems([i \in 1..Len(all) |-> appendAttr(h, all[i], noColor)],
                                   TRUE)
                 ELSE <<>>
    IN  <<FormatTimestampFixed(timestampStr, noColor), <<" ">>, levelFormatted,
          HandleCallerPart(h, r, noColor), HandleMessagePart(r, noColor), attrs>>

\* The texts Handle writes to its strings.Builder, one after the other
HandleParts(h, r, noColor) ==
    LET timestampStr == FormatTime(r.Time, ToTimeFormat(h.opts.TimestampFormat))
        levelStr == slogLevelToString(r.Level)
        levelFormatted == ColorLevelFixed(levelStr, h.opts.PadLevel,
                                          h.opts.PadAmount, h.opts.PadSide, noColor)
        caller == HandleCallerPart(h, r, noColor)
        message == HandleMessagePart(r, noColor)
        all == h.attrs \o r.Attrs
        hasAttrs == Len(h.attrs) > 0 \/ Len(r.Attrs) > 0
        attrs == IF hasAttrs
                 THEN h.opts.MsgSeparator
                      \o JoinItems([i \in 1..Len(all) |-> appendAttr(h, all[i], noColor)],
                                   TRUE)
                 ELSE <<>>
    IN  <<FormatTimestampFixed(timestampStr, noColor), <<" ">>, levelFormatted,
          caller, message, attrs, <<"\n">>>>

\* The line Handle builds and hands to h.writer.Write in one call
Handle(h, r, noColor) == Concat(HandleParts(h, r, noColor))

----------------------------------------------------------------------------
(* package colours and package options *)

\* colours.Default()
ColoursDefault ==
    Ptr([ColorsDefault[1] EXCEPT !.AttrValue = Ptr(Color(FgGreen, Reset))])

LogRUs == 0
Slog == 1

StdOut == "stdout"
StdErr == "stderr"
FileSystem == "filesystem"

\* options.Default(): a copy of defaultOpts
OptionsDefault ==
    [Coloured        |-> TRUE,
     Level           |-> "trace",
     Output          |-> "stdout",
     ReportCaller    |-> TRUE,
     TimestampFormat |-> SimpleTimestamp,
     PadLevel        |-> FALSE,
     PadAmount       |-> 5,
     PadSide         |-> "left",
     MsgSeparator    |-> <<":", " ">>,
     Logger          |-> Slog,
     Colours         |-> ColoursDefault]

----------------------------------------------------------------------------
(* The inputs the model draws from *)

\* A Colours value with one element replaced
Override(colours, element, c) == Ptr([colours[1] EXCEPT ![element] = c])

ResetColor == Ptr(Color(Reset, Reset))
CustomColor == Ptr(Color(FgHiRed, BgYellow))
BgOnlyColor == Ptr(Color(Reset, BgBlue))

\* The colour configurations of the whole-system specification
ColourConfigs ==
    {Nil, ColoursDefault,
     Override(ColoursDefault, "Timestamp", ResetColor),
     Override(ColoursDefault, "Message", Nil),
     Override(ColoursDefault, "LevelError", CustomColor)}

Separators == {<<":", " ">>, <<" ", "|", "|", " ">>}

OptionsSet ==
    {[OptionsDefault EXCEPT !.Coloured = c, !.Level = l, !.Output = o,
                            !.ReportCaller = rc, !.TimestampFormat = ts,
                            !.PadLevel = pad[1], !.PadAmount = pad[2],
                            !.PadSide = pad[3], !.MsgSeparator = sep,
                            !.Logger = lg, !.Colours = col] :
        c \in BOOLEAN, l \in {"trace", "error", "verbose"},
        o \in {StdOut, FileSystem, "syslog"},
        rc \in BOOLEAN, ts \in {TSUnset, TimeOnly},
        pad \in {<<FALSE, 5, "left">>, <<TRUE, 7, "left">>},
        sep \in Separators, lg \in {LogRUs, Slog, Slog + 1},
        col \in ColourConfigs}

Instants ==
    {[year |-> 2025, month |-> 11, day |-> 7, hour |-> 14, minute |-> 30,
      second |-> 45, offset |-> 0]}

Messages == {<<>>, <<"disk", " ", "full">>}

StringValue(s) == [kind |-> "string", s |-> s, n |-> 0]
IntValue(n) == [kind |-> "int", s |-> <<>>, n |-> n]

\* The attributes records carry: key and value
AttrPool ==
    {[Key |-> <<"b">>, Value |-> IntValue(2)],
     [Key |-> <<"a">>, Value |-> IntValue(1)],
     [Key |-> <<"path">>, Value |-> StringValue(<<"/tmp">>)]}

\* logrus.Fields: maps from key to value with at most MaxAttrs keys
DataMaps ==
    {[k \in {a.Key : a \in P} |-> (CHOOSE a \in P : a.Key = k).Value] :
        P \in {Q \in SUBSET AttrPool : Cardinality(Q) <= MaxAttrs}}

\* The orders in which a range over a map with key set S can yield its keys
Perms(S) ==
    {p \in [1..Cardinality(S) -> S] :
        \A i, j \in 1..Cardinality(S) : p[i] = p[j] => i = j}

\* slog attribute lists of at most MaxAttrs attributes
AttrLists == UNION {[1..n -> AttrPool] : n \in 0..MaxAttrs}

Frames == {[Function |-> <<"svc.Write">>, Line |-> 88]}

\* The logrus levels and slog levels of the records logged
RecordLogrusLevels == {"debug", "info", "warning", "error"}
RecordSlogLevels == {SlogLevelDebug, SlogLevelInfo, SlogLevelWarn, SlogLevelError}

----------------------------------------------------------------------------
(* State and operations *)

NoCall == [op |-> "none", via |-> "none"]
NoResult == [status |-> "none", line |-> <<>>]
PanicResult == [status |-> "panic", line |-> <<>>]
ErrorResult == [status |-> "error", line |-> <<>>]
QuietResult == [status |-> "quiet", line |-> <<>>]
LineResult(line) == [status |-> "line", line |-> line]

\* What a formatting call through logrus yields: the line, or a panic
FormatResult(f, entry, reportCaller, order, noColor) ==
    IF LogLineFormatPanics(f, entry, reportCaller) THEN PanicResult
    ELSE LineResult(LogLineFormat(f, entry, reportCaller, order, noColor))

FormatCall(op, f, entry, reportCaller, order, noColor) ==
    [op |-> op, via |-> "Format", f |-> f, entry |-> entry,
     reportCaller |-> reportCaller, order |-> order, noColor |-> noColor]

HandleCall(op, h, r, noColor) ==
    [op |-> op, via |-> "Handle", h |-> h, r |-> r, noColor |-> noColor]

NoData == [k \in {} |-> IntValue(0)]

\* What SetupLogging hands back: nothing when it panics, else the pair of
\* logger (a pointer to its handler, or nil) and error (nil or not)
NoReturn == [returned |-> FALSE, logger |-> Nil, err |-> FALSE]
Return(logger, err) == [returned |-> TRUE, logger |-> logger, err |-> err]

\* A setup: the options object as given, as it is after the call, and what
\* came back; with the formatting call of the closing log line, if any
SetupCall(op, opts, after, ret) ==
    [op |-> op, via |-> "none", opts |-> opts, after |-> after, ret |-> ret]

SetupFormatCall(op, f, entry, reportCaller, noColor, opts, after, ret) ==
    [op |-> op, via |-> "Format", f |-> f, entry |-> entry,
     reportCaller |-> reportCaller, order |-> <<>>, noColor |-> noColor,
     opts |-> opts, after |-> after, ret |-> ret]

SetupHandleCall(op, h, r, noColor, opts, after, ret) ==
    [op |-> op, via |-> "Handle", h |-> h, r |-> r, noColor |-> noColor,
     opts |-> opts, after |-> after, ret |-> ret]

\* Before any setup: color.NoColor is what the colour library found in the
\* environment, logrus has its own formatter, slog its own default handler
Init ==
    /\ NoColor \in BOOLEAN
    /\ std = [Formatter |-> Nil, Level |-> "info", ReportCaller |-> FALSE]
    /\ slogH = Nil
    /\ call = NoCall
    /\ result = NoResult

\* logger.SetupLogRUs(opts), with its closing log.Info("Logging initialized.")
SetupLogRUs(opts, now) ==
    LET f == [DisableColors   |-> ~opts.Coloured,
              TimestampFormat |-> IF opts.TimestampFormat = TSUnset
                                  THEN SimpleTimestamp ELSE opts.TimestampFormat,
              PadLevel        |-> opts.PadLevel,
              PadAmount       |-> opts.PadAmount,
              PadSide         |-> opts.PadSide,
              MsgSeparator    |-> opts.MsgSeparator,
              Colours         |-> opts.Colours]
        entry == [Time    |-> now,
                  Level   |-> "info",
                  Message |-> <<"Logging", " ", "initialized", ".">>,
                  Caller  |-> IF opts.ReportCaller
                              THEN Ptr([Function |-> <<"logger.SetupLogRUs">>,
                                        Line |-> 55])
                              ELSE Nil,
                  Data    |-> NoData]
    IN  IF ~ParseLevelOk(opts.Level)
        THEN /\ call' = SetupCall("SetupLogRUs", opts, opts, NoReturn)
             /\ result' = PanicResult
             /\ UNCHANGED <<NoColor, std, slogH>>
        ELSE IF opts.Output \notin {StdOut, StdErr}
        THEN /\ std' = [std EXCEPT !.Level = ParseLevel(opts.Level)]
             /\ call' = SetupCall("SetupLogRUs", opts, opts, NoReturn)
             /\ result' = PanicResult
             /\ UNCHANGED <<NoColor, slogH>>
        ELSE /\ NoColor' = ~opts.Coloured
             /\ std' = [Formatter |-> Ptr(f), Level |-> ParseLevel(opts.Level),
                        ReportCaller |-> opts.ReportCaller]
             /\ IF IsLevelEnabled(ParseLevel(opts.Level), "info")
                THEN /\ call' = SetupFormatCall(
                                  "SetupLogRUs", f, entry, opts.ReportCaller,
                                  ~opts.Coloured, opts, opts,
                                  IF LogLineFormatPanics(f, entry, opts.ReportCaller)
                                  THEN NoReturn ELSE Return(Nil, FALSE))
                     /\ result' = FormatResult(f, entry, opts.ReportCaller, <<>>,
                                               ~opts.Coloured)
                ELSE /\ call' = SetupCall("SetupLogRUs", opts, opts,
                                          Return(Nil, FALSE))
                     /\ result' = QuietResult
             /\ UNCHANGED slogH

\* logger.SetupSlog(opts) for a non-nil opts, with NewSLogHandler and its
\* closing logger.Info("Slog logging initialized."). The handler keeps the
\* pointer it was given: its opts is the caller's object, as stored here.
SetupSlog(opts, now) ==
    LET stored == [opts EXCEPT !.TimestampFormat =
                       IF opts.TimestampFormat = TSUnset
                       THEN SimpleTimestamp ELSE opts.TimestampFormat]
        h == [opts |-> stored, writer |-> opts.Output, attrs |-> <<>>,
              groups |-> <<>>]
        r == [Time    |-> now,
              Level   |-> SlogLevelInfo,
              Message |-> <<"Slog", " ", "logging", " ", "initialized", ".">>,
              PC      |-> Ptr([Function |-> <<"logger.SetupSlog">>, Line |-> 175]),
              Attrs   |-> <<>>]
    IN  IF opts.Output \notin {StdOut, StdErr}
        THEN /\ call' = SetupCall("SetupSlog", opts, opts, NoReturn)
             /\ result' = PanicResult
             /\ UNCHANGED <<NoColor, std, slogH>>
        ELSE /\ NoColor' = ~opts.Coloured
             /\ slogH' = Ptr(h)
             /\ IF Enabled(h, SlogLevelInfo)
                THEN /\ call' = SetupHandleCall("SetupSlog", h, r, ~opts.Coloured,
                                                opts, stored, Return(Ptr(h), FALSE))
                     /\ result' = LineResult(Handle(h, r, ~opts.Coloured))
                ELSE /\ call' = SetupCall("SetupSlog", opts, stored,
                                          Return(Ptr(h), FALSE))
                     /\ result' = QuietResult
             /\ UNCHANGED std

\* SetupLogging as it would be with slog for every Logger but LogRUs
SetupLoggingSlogByDefault(opts, now) ==
    /\ call.op = "none"
    /\ CASE opts.Logger = LogRUs -> SetupLogRUs(opts, now)
         [] OTHER -> SetupSlog(opts, now)

\* zylog.SetupLogging(opts), once per run of the program
SetupLogging(opts, now) ==
    /\ call.op = "none"
    /\ CASE opts.Logger = LogRUs -> SetupLogRUs(opts, now)
         [] opts.Logger = Slog -> SetupSlog(opts, now)
         [] OTHER -> /\ call' = SetupCall("SetupLogging", opts, opts,
                                          Return(Nil, TRUE))
                     /\ result' = ErrorResult
                     /\ UNCHANGED <<NoColor, std, slogH>>

\* A log call on the global logrus logger once LogLine is its formatter:
\* logrus builds the entry (with the caller when ReportCaller is set) and
\* calls LogLine.Format; the map of fields is ranged over in any order.
\* One record per run: a log call changes nothing but call and result, so a
\* second one reaches no state the first does not reach.
LogrusLog ==
    /\ std.Formatter # Nil
    /\ call.op # "Log"
    /\ \E l \in RecordLogrusLevels, now \in Instants, m \in Messages,
          data \in DataMaps, frame \in Frames :
          /\ IsLevelEnabled(std.Level, l)
          /\ \E order \in Perms(DOMAIN data) :
                LET entry == [Time |-> now, Level |-> l, Message |-> m,
                              Caller |-> IF std.ReportCaller THEN Ptr(frame)
                                         ELSE Nil,
                              Data |-> data]
                IN  /\ call' = FormatCall("Log", std.Formatter[1], entry,
                                          std.ReportCaller, order, NoColor)
                    /\ result' = FormatResult(std.Formatter[1], entry,
                                              std.ReportCaller, order, NoColor)
    /\ UNCHANGED <<NoColor, std, slogH>>

\* A log call on the slog logger: Enabled, then Handle
SlogLog ==
    /\ slogH # Nil
    /\ call.op # "Log"
    /\ \E l \in RecordSlogLevels, now \in Instants, m \in Messages,
          attrs \in AttrLists, pc \in {Nil} \cup {Ptr(fr) : fr \in Frames} :
          /\ Enabled(slogH[1], l)
          /\ LET r == [Time |-> now, Level |-> l, Message |-> m, PC |-> pc,
                       Attrs |-> attrs]
             IN  /\ call' = HandleCall("Log", slogH[1], r, NoColor)
                 /\ result' = LineResult(Handle(slogH[1], r, NoColor))
    /\ UNCHANGED <<NoColor, std, slogH>>

Next ==
    \/ \E opts \in OptionsSet, now \in Instants : SetupLogging(opts, now)
    \/ LogrusLog
    \/ SlogLog

Spec == Init /\ [][Next]_vars

----------------------------------------------------------------------------
(* ColorLevel on its own: the arguments are drawn in the initial state and *)
(* the one action applies the function to them                             *)

\* Level texts: the eight tags, and texts ColorLevel does not know
LevelInputs ==
    LevelTags \cup
    {<<>>,
     <<"i", "n", "f", "o">>,
     <<"N", "O", "T", "I", "C", "E">>,
     <<" ", "I", "N", "F", "O">>,
     <<"W", "A", "R", "N", " ">>,
     <<"I", "N", " ", "F", "O">>}

PadAmounts == (0 - 1)..MaxPad

PadSides == {"left", "right", "", "LEFT"}

LevelElements ==
    {"LevelTrace", "LevelDebug", "LevelInfo", "LevelWarn", "LevelWarning",
     "LevelError", "LevelFatal", "LevelPanic"}

\* Nil, the defaults, and the defaults with one level colour replaced
LevelColourConfigs ==
    {Nil, ColorsDefault} \cup
    {Override(ColorsDefault, e, c) :
        e \in LevelElements, c \in {Nil, ResetColor, CustomColor, BgOnlyColor}}

ColorLevelCalls ==
    [op : {"ColorLevel"}, via : {"none"}, lvl : LevelInputs,
     padLevel : BOOLEAN, padAmount : PadAmounts, padSide : PadSides,
     colours : LevelColourConfigs]

InitLevel ==
    /\ NoColor \in BOOLEAN
    /\ std = [Formatter |-> Nil, Level |-> "info", ReportCaller |-> FALSE]
    /\ slogH = Nil
    /\ call \in ColorLevelCalls
    /\ result = NoResult

ColorLevelStep ==
    /\ call.op = "ColorLevel"
    /\ result.status = "none"
    /\ result' = IF ColorLevelPanics(call.lvl, call.padLevel, call.padAmount,
                                     call.padSide, call.colours)
                 THEN PanicResult
                 ELSE LineResult(ColorLevel(call.lvl, call.padLevel,
                                            call.padAmount, call.padSide,
                                            call.colours, NoColor))
    /\ UNCHANGED <<NoColor, std, slogH, call>>

NextLevel == ColorLevelStep

SpecLevel == InitLevel /\ [][NextLevel]_vars

----------------------------------------------------------------------------
(* LogLine.Format on its own: formatter, entry and map order are drawn in  *)
(* the initial state and the one action applies Format to them             *)

\* Nil, the defaults, and the defaults with one element's colour replaced
ElementColourConfigs ==
    {Nil, ColorsDefault} \cup
    {Override(ColorsDefault, e, c) :
        e \in Elements, c \in {Nil, ResetColor, CustomColor, BgOnlyColor}}

InitFormat ==
    \E col \in ElementColourConfigs, d \in BOOLEAN, now \in Instants,
       l \in Range(LogrusLevels), m \in Messages, rc \in BOOLEAN,
       frame \in Frames, data \in DataMaps :
        \E order \in Perms(DOMAIN data) :
            LET f == [DisableColors   |-> d,
                      TimestampFormat |-> SimpleTimestamp,
                      PadLevel        |-> FALSE,
                      PadAmount       |-> 5,
                      PadSide         |-> "left",
                      MsgSeparator    |-> <<":", " ">>,
                      Colours         |-> col]
                entry == [Time |-> now, Level |-> l, Message |-> m,
                          Caller |-> IF rc THEN Ptr(frame) ELSE Nil,
                          Data |-> data]
            IN  /\ call = FormatCall("Format", f, entry, rc, order, d)
                /\ NoColor = d
                /\ std = [Formatter |-> Ptr(f), Level |-> "trace",
                          ReportCaller |-> rc]
                /\ slogH = Nil
                /\ result = NoResult

FormatStep ==
    /\ call.op = "Format"
    /\ result.status = "none"
    /\ result' = FormatResult(call.f, call.entry, call.reportCaller, call.order,
                              NoColor)
    /\ UNCHANGED <<NoColor, std, slogH, call>>

NextFormat == FormatStep

SpecFormat == InitFormat /\ [][NextFormat]_vars

----------------------------------------------------------------------------
(* Two callers formatting at the same time: each call writes its texts to  *)
(* its buffer one after the other, in any interleaving with the other      *)
(* call, and then emits the content of the buffer                          *)

\* The buffer a call writes to as it would be if there were one for all
SharedBuffer(i) == 1

\* The buffer a call writes to: Format takes the buffer of its entry (logrus
\* gives every entry its own) or a new one, Handle declares a local builder
BufferOf(i) == i

CallPads == {<<FALSE, 5, "left">>, <<TRUE, 7, "right">>}

\* Calls of LogLine.Format: formatter, entry, and the order of the range
FormatCallers ==
    {[via |-> "Format",
      cfg |-> [DisableColors   |-> FALSE,
               TimestampFormat |-> SimpleTimestamp,
               PadLevel        |-> pad[1],
               PadAmount       |-> pad[2],
               PadSide         |-> pad[3],
               MsgSeparator    |-> <<":", " ">>,
               Colours         |-> ColoursDefault],
      rec |-> [Time |-> now, Level |-> l,
               Message |-> <<"disk", " ", "full">>,
               Caller |-> Nil, Data |-> data],
      reportCaller |-> FALSE,
      order |-> order,
      pc |-> 1] :
        pad \in CallPads, now \in Instants, l \in {"info", "error"},
        data \in {d \in DataMaps : DOMAIN d \in {{}, {<<"a">>, <<"b">>}}},
        order \in UNION {Perms(S) : S \in {{}, {<<"a">>, <<"b">>}}}}

\* Calls of SLogHandler.Handle: handler and record
HandleCallers ==
    {[via |-> "Handle",
      cfg |-> [opts |-> [OptionsDefault EXCEPT !.PadLevel = pad[1],
                                               !.PadAmount = pad[2],
                                               !.PadSide = pad[3]],
               writer |-> StdOut, attrs |-> <<>>, groups |-> <<>>],
      rec |-> [Time |-> now, Level |-> l,
               Message |-> <<"disk", " ", "full">>,
               PC |-> Nil, Attrs |-> attrs],
      reportCaller |-> FALSE,
      order |-> <<>>,
      pc |-> 1] :
        pad \in CallPads, now \in Instants,
        l \in {SlogLevelInfo, SlogLevelError},
        attrs \in {a \in AttrLists :
                      a = <<>> \/ (Len(a) = 2 /\ a[1].Key = <<"b">>
                                   /\ a[2].Key = <<"a">>)}}

CallersVia(v) ==
    IF v = "Format"
    THEN {c \in FormatCallers : DOMAIN c.rec.Data = Range(c.order)}
    ELSE HandleCallers

\* The texts the call of caller c writes, with the colour flag as it is now
PartsOf(c, noColor) ==
    IF c.via = "Format"
    THEN LogLineFormatParts(c.cfg, c.rec, c.reportCaller, c.order, noColor)
    ELSE HandleParts(c.cfg, c.rec, noColor)

InitCalls ==
    /\ NoColor \in BOOLEAN
    /\ std = [Formatter |-> Nil, Level |-> "info", ReportCaller |-> FALSE]
    /\ slogH = Nil
    /\ \E v1, v2 \in {"Format", "Handle"} :
          \E c1 \in CallersVia(v1), c2 \in CallersVia(v2) :
              call = [op |-> "Calls", via |-> "none", callers |-> <<c1, c2>>]
    /\ result = [status |-> "none", line |-> <<>>, bufs |-> <<<<>>, <<>>>>,
                 out |-> <<>>]

\* Caller i writes its next text to its buffer
WriteText(i) ==
    LET c == call.callers[i]
        parts == PartsOf(c, NoColor)
    IN  /\ call.op = "Calls"
        /\ c.pc <= Len(parts)
        /\ result' = [result EXCEPT !.bufs[BufferOf(i)] = @ \o parts[c.pc]]
        /\ call' = [call EXCEPT !.callers[i].pc = @ + 1]
        /\ UNCHANGED <<NoColor, std, slogH>>

\* Caller i is through: Format returns b.Bytes(), Handle calls
\* h.writer.Write with the content of the builder
Emit(i) ==
    LET c == call.callers[i]
    IN  /\ call.op = "Calls"
        /\ c.pc = Len(PartsOf(c, NoColor)) + 1
        /\ result' = [result EXCEPT !.out =
                         Append(@, [caller |-> i,
                                    line |-> result.bufs[BufferOf(i)]])]
        /\ call' = [call EXCEPT !.callers[i].pc = @ + 1]
        /\ UNCHANGED <<NoColor, std, slogH>>

NextCalls == \E i \in 1..2 : WriteText(i) \/ Emit(i)

SpecCalls == InitCalls /\ [][NextCalls]_vars

----------------------------------------------------------------------------
(* Setups over every timestamp format, each with its closing log line at   *)
(* one of several instants                                                 *)

\* TSFormat is an int: the five constants, and values beside them
TSFormats == (TSUnset - 1)..(TimeOnly + 1)

TimeInstants ==
    {[year |-> 2025, month |-> 11, day |-> 7, hour |-> 14, minute |-> 30,
      second |-> 45, offset |-> 0],
     [year |-> 2024, month |-> 2, day |-> 29, hour |-> 0, minute |-> 0,
      second |-> 0, offset |-> 0 - 300],
     [year |-> 1999, month |-> 12, day |-> 31, hour |-> 23, minute |-> 59,
      second |-> 59, offset |-> 330],
     [year |-> 2006, month |-> 1, day |-> 2, hour |-> 15, minute |-> 4,
      second |-> 5, offset |-> 0 - 420]}

TimeOptions ==
    {[OptionsDefault EXCEPT !.TimestampFormat = ts, !.Logger = lg,
                            !.Coloured = c, !.ReportCaller = rc] :
        ts \in TSFormats, lg \in {LogRUs, Slog}, c \in BOOLEAN, rc \in BOOLEAN}

NextTime == \E opts \in TimeOptions, now \in TimeInstants : SetupLogging(opts, now)

SpecTime == Init /\ [][NextTime]_vars

----------------------------------------------------------------------------
(* Handlers derived from one another with WithAttrs and WithGroup. Here    *)
(* slogH is the heap of the program: the SLogHandler structs made so far   *)
(* and the backing arrays of their attrs and groups slices. A handler is   *)
(* named by its index in the heap (its address).                           *)

MaxHandlers == 4    \* most SLogHandler structs in the heap

\* A slice: the backing array it points into, and its length
Slice(array, len) == [array |-> array, len |-> len]

\* The elements a slice shows, read from the heap
Elems(arrays, s) == SubSeq(arrays[s.array], 1, s.len)

\* The handler at address i as Handle reads it: its options and the
\* elements of its two slices
HandlerAt(heap, i) ==
    LET h == heap.handlers[i]
    IN  [opts |-> h.opts, writer |-> h.writer,
         attrs |-> Elems(heap.attrArrays, h.attrs),
         groups |-> Elems(heap.groupArrays, h.groups)]

\* NewSLogHandler(writer, opts) in an empty heap: the struct, with
\* make([]slog.Attr, 0) and make([]string, 0)
NewSLogHandler(writer, opts) ==
    [handlers |-> <<[opts |-> opts, writer |-> writer,
                     attrs |-> Slice(1, 0), groups |-> Slice(1, 0)]>>,
     attrArrays |-> <<<<>>>>,
     groupArrays |-> <<<<>>>>]

\* WithAttrs as it would be if it appended to the receiver's own slice and
\* returned the receiver
WithAttrsInPlace(heap, i, attrs) ==
    LET h == heap.handlers[i]
        newAttrs == Elems(heap.attrArrays, h.attrs) \o attrs
        array == Len(heap.attrArrays) + 1
    IN  [heap |-> [handlers |-> [heap.handlers EXCEPT
                                    ![i].attrs = Slice(array, Len(newAttrs))],
                   attrArrays |-> Append(heap.attrArrays, newAttrs),
                   groupArrays |-> heap.groupArrays],
         ret |-> i]

\* WithAttrs as it would be with the arguments copied in front of the
\* receiver's attributes
WithAttrsArgsFirst(heap, i, attrs) ==
    LET h == heap.handlers[i]
        newAttrs == attrs \o Elems(heap.attrArrays, h.attrs)
        array == Len(heap.attrArrays) + 1
    IN  [heap |-> [handlers |-> Append(heap.handlers,
                                       [opts |-> h.opts, writer |-> h.writer,
                                        attrs |-> Slice(array, Len(newAttrs)),
                                        groups |-> h.groups]),
                   attrArrays |-> Append(heap.attrArrays, newAttrs),
                   groupArrays |-> heap.groupArrays],
         ret |-> Len(heap.handlers) + 1]

\* h.WithAttrs(attrs) for the handler at address i: a new array with the
\* receiver's attributes and then the arguments, and a new struct that has
\* it and the receiver's groups slice. Gives the heap afterwards and the
\* address returned.
WithAttrs(heap, i, attrs) ==
    LET h == heap.handlers[i]
        newAttrs == Elems(heap.attrArrays, h.attrs) \o attrs
        array == Len(heap.attrArrays) + 1
    IN  [heap |-> [handlers |-> Append(heap.handlers,
                                       [opts |-> h.opts, writer |-> h.writer,
                                        attrs |-> Slice(array, Len(newAttrs)),
                                        groups |-> h.groups]),
                   attrArrays |-> Append(heap.attrArrays, newAttrs),
                   groupArrays |-> heap.groupArrays],
         ret |-> Len(heap.handlers) + 1]

\* h.WithGroup(name) for the handler at address i: the receiver for the
\* empty name; else a new array with the receiver's groups and then the
\* name, and a new struct that has it and the receiver's attrs slice.
WithGroup(heap, i, name) ==
    IF name = <<>> THEN [heap |-> heap, ret |-> i]
    ELSE
    LET h == heap.handlers[i]
        newGroups == Append(Elems(heap.groupArrays, h.groups), name)
        array == Len(heap.groupArrays) + 1
    IN  [heap |-> [handlers |-> Append(heap.handlers,
                                       [opts |-> h.opts, writer |-> h.writer,
                                        attrs |-> h.attrs,
                                        groups |-> Slice(array, Len(newGroups))]),
                   attrArrays |-> heap.attrArrays,
                   groupArrays |-> Append(heap.groupArrays, newGroups)],
         ret |-> Len(heap.handlers) + 1]

\* The attribute lists given to WithAttrs, and the names given to WithGroup
WithAttrsLists ==
    {<<[Key |-> <<"b">>, Value |-> IntValue(2)],
       [Key |-> <<"a">>, Value |-> IntValue(1)]>>,
     <<[Key |-> <<"a">>, Value |-> IntValue(1)]>>}

GroupNames == {<<>>, <<"req">>, <<"db">>}

\* The records handled
HandlerRecords ==
    {[Time |-> now, Level |-> SlogLevelInfo, Message |-> <<"disk", " ", "full">>,
      PC |-> Nil, Attrs |-> <<>>] : now \in Instants}
    \cup
    {[Time |-> now, Level |-> SlogLevelError, Message |-> <<>>, PC |-> Nil,
      Attrs |-> <<[Key |-> <<"path">>, Value |-> StringValue(<<"/tmp">>)]>>] :
        now \in Instants}

NoRecord ==
    [Time |-> CHOOSE now \in Instants : TRUE, Level |-> SlogLevelInfo,
     Message |-> <<>>, PC |-> Nil, Attrs |-> <<>>]

\* The call that ran last: the receiver's address, the address returned, the
\* argument of a derivation, the record handled; and for every handler how it was derived (the WithAttrs
\* and WithGroup calls from the first handler to it, in order) and what it
\* showed when it was made
AttrsStep(attrs) == [kind |-> "attrs", attrs |-> attrs, name |-> <<>>]
GroupStep(name) == [kind |-> "group", attrs |-> <<>>, name |-> name]
NoStep == [kind |-> "none", attrs |-> <<>>, name |-> <<>>]

HandlerCall(op, recv, ret, arg, r, trail, born) ==
    [op |-> op, via |-> IF op = "Handle" THEN "Handle" ELSE "none",
     recv |-> recv, ret |-> ret, arg |-> arg, r |-> r, trail |-> trail,
     born |-> born]

HandlerResult == [status |-> "handler", line |-> <<>>]

InitHandlers ==
    /\ NoColor = FALSE
    /\ std = [Formatter |-> Nil, Level |-> "info", ReportCaller |-> FALSE]
    /\ slogH = NewSLogHandler(StdOut, OptionsDefault)
    /\ call = HandlerCall("NewSLogHandler", 0, 1, NoStep, NoRecord, <<<<>>>>,
                          <<HandlerAt(NewSLogHandler(StdOut, OptionsDefault), 1)>>)
    /\ result = HandlerResult

\* The trail and the first view of the handlers after a derivation from i
\* that returned address ret in heap
TrailAfter(i, ret, step) ==
    IF ret > Len(call.trail) THEN Append(call.trail, Append(call.trail[i], step))
    ELSE call.trail

BornAfter(heap, ret) ==
    IF ret > Len(call.born) THEN Append(call.born, HandlerAt(heap, ret))
    ELSE call.born

DeriveWithAttrs(i, attrs) ==
    LET d == WithAttrs(slogH, i, attrs)
    IN  /\ Len(d.heap.handlers) <= MaxHandlers
        /\ slogH' = d.heap
        /\ call' = HandlerCall("WithAttrs", i, d.ret, AttrsStep(attrs), NoRecord,
                               TrailAfter(i, d.ret, AttrsStep(attrs)),
                               BornAfter(d.heap, d.ret))
        /\ result' = HandlerResult
        /\ UNCHANGED <<NoColor, std>>

DeriveWithGroup(i, name) ==
    LET d == WithGroup(slogH, i, name)
    IN  /\ Len(d.heap.handlers) <= MaxHandlers
        /\ slogH' = d.heap
        /\ call' = HandlerCall("WithGroup", i, d.ret, GroupStep(name), NoRecord,
                               TrailAfter(i, d.ret, GroupStep(name)),
                               BornAfter(d.heap, d.ret))
        /\ result' = HandlerResult
        /\ UNCHANGED <<NoColor, std>>

\* Handle on the handler at address i
HandleRecord(i, r) ==
    /\ call' = HandlerCall("Handle", i, i, NoStep, r, call.trail, call.born)
    /\ result' = LineResult(Handle(HandlerAt(slogH, i), r, NoColor))
    /\ UNCHANGED <<NoColor, std, slogH>>

NextHandlers ==
    \E i \in 1..Len(slogH.handlers) :
        \/ \E attrs \in WithAttrsLists : DeriveWithAttrs(i, attrs)
        \/ \E name \in GroupNames : DeriveWithGroup(i, name)
        \/ \E r \in HandlerRecords : HandleRecord(i, r)

SpecHandlers == InitHandlers /\ [][NextHandlers]_vars

----------------------------------------------------------------------------
(* A program with two loggers: the slog logger SetupSlog returns and the   *)
(* global logrus logger SetupLogRUs configures, set up one after the other *)
(* in either order, each with options of its own, and then used            *)

LoggerOptions ==
    {[OptionsDefault EXCEPT !.Coloured = c, !.ReportCaller = FALSE,
                            !.Logger = lg] :
        c \in BOOLEAN, lg \in {LogRUs, Slog}}

\* SetupLogging for the backend that is not set up yet
SetupLogger(opts, now) ==
    /\ result.status # "panic"
    /\ \/ opts.Logger = Slog /\ slogH = Nil /\ SetupSlog(opts, now)
       \/ opts.Logger = LogRUs /\ std.Formatter = Nil /\ SetupLogRUs(opts, now)

NextLoggers ==
    \/ \E opts \in LoggerOptions, now \in Instants : SetupLogger(opts, now)
    \/ LogrusLog
    \/ SlogLog

SpecLoggers == Init /\ [][NextLoggers]_vars

----------------------------------------------------------------------------
(* Enabled and slogLevelToString on their own: the level name of the       *)
(* options, rune by rune, and the level of a record are drawn in the       *)
(* initial state, and the one action applies the two functions             *)

LowerRune(c) ==
    IF \E i \in 1..Len(Upper) : Upper[i] = c
    THEN Lower[CHOOSE i \in 1..Len(Upper) : Upper[i] = c]
    ELSE c

\* strings.ToLower
ToLower(s) == [i \in 1..Len(s) |-> LowerRune(s[i])]

\* The string of the switch in parseSlogLevel that a text is equal to; a
\* text equal to none of them takes the default branch
CaseLabel(s) ==
    CASE s = <<"t", "r", "a", "c", "e">> -> "trace"
      [] s = <<"d", "e", "b", "u", "g">> -> "debug"
      [] s = <<"i", "n", "f", "o">> -> "info"
      [] s = <<"w", "a", "r", "n">> -> "warn"
      [] s = <<"w", "a", "r", "n", "i", "n", "g">> -> "warning"
      [] s = <<"e", "r", "r", "o", "r">> -> "error"
      [] s = <<"f", "a", "t", "a", "l">> -> "fatal"
      [] s = <<"p", "a", "n", "i", "c">> -> "panic"
      [] OTHER -> "default"

\* The first rune in upper case
Capitalised(s) == IF s = <<>> THEN s ELSE <<UpperRune(Head(s))>> \o Tail(s)

\* Level names as options carry them: the eight names in lower case, in
\* upper case and capitalised, and texts that are none of them
LevelNameInputs ==
    LET names == {ToLower(t) : t \in LevelTags}
    IN  names \cup {ToUpper(n) : n \in names} \cup {Capitalised(n) : n \in names}
        \cup {<<>>, <<"v", "e", "r", "b", "o", "s", "e">>,
              <<"w", "a", "r", "n", "s">>, <<" ", "i", "n", "f", "o">>,
              <<"E", "R", "R">>}

\* slog.Level is an int: the named levels, the levels between and beside
SlogLevelInputs == (SlogLevelDebug - 4)..(SlogLevelError + 12)

InitSlogLevel ==
    /\ NoColor \in BOOLEAN
    /\ std = [Formatter |-> Nil, Level |-> "info", ReportCaller |-> FALSE]
    /\ slogH = Nil
    /\ call \in [op : {"Enabled"}, via : {"none"}, level : LevelNameInputs,
                 lvl : SlogLevelInputs]
    /\ result = NoResult

\* h.Enabled(ctx, lvl) for a handler whose options have the level name, and
\* slogLevelToString(lvl), the tag Handle gives a record of that level
EnabledStep ==
    LET h == [opts |-> [OptionsDefault EXCEPT
                           !.Level = CaseLabel(ToLower(call.level))],
              writer |-> StdOut, attrs |-> <<>>, groups |-> <<>>]
    IN  /\ call.op = "Enabled"
        /\ result.status = "none"
        /\ result' = [status |-> "value", line |-> slogLevelToString(call.lvl),
                      enabled |-> Enabled(h, call.lvl),
                      minLevel |-> parseSlogLevel(h.opts.Level)]
        /\ UNCHANGED <<NoColor, std, slogH, call>>

NextSlogLevel == EnabledStep

SpecSlogLevel == InitSlogLevel /\ [][NextSlogLevel]_vars

----------------------------------------------------------------------------
(* The option presets. Here slogH is the heap of package options: the      *)
(* Colours objects and the ZyLog objects made so far, each named by its    *)
(* index (its address); the Colours field of a ZyLog object is the address *)
(* of a Colours object, 0 for nil.                                         *)

MaxOptions == 2     \* most ZyLog objects the presets have returned

\* The package variable defaultOpts; its Colours is the object
\* colours.Default() made when the package was initialised, at address 1
defaultOpts == [OptionsDefault EXCEPT !.Colours = 1]

\* The heap when package options is initialised
OptionsHeap == [colours |-> <<ColoursDefault[1]>>, opts |-> <<>>]

\* return &opts for a local copy opts: the heap afterwards and the address
ReturnOptions(heap, opts) ==
    [heap |-> [heap EXCEPT !.opts = Append(@, opts)], ret |-> Len(heap.opts) + 1]

\* options.Default(): opts := *defaultOpts
Default(heap) == ReturnOptions(heap, defaultOpts)

\* options.WithLevelPadding()
WithLevelPadding(heap) == ReturnOptions(heap, [defaultOpts EXCEPT !.PadLevel = TRUE])

\* options.NoCaller()
NoCaller(heap) == ReturnOptions(heap, [defaultOpts EXCEPT !.ReportCaller = FALSE])

Preset(name, heap) ==
    CASE name = "Default" -> Default(heap)
      [] name = "WithLevelPadding" -> WithLevelPadding(heap)
      [] name = "NoCaller" -> NoCaller(heap)

PresetNames == {"Default", "WithLevelPadding", "NoCaller"}

\* The ZyLog object at address j with its Colours pointer followed
OptionsAt(heap, j) ==
    [heap.opts[j] EXCEPT !.Colours = IF @ = 0 THEN Nil ELSE Ptr(heap.colours[@])]

PresetCall(op, ret) == [op |-> op, via |-> "none", ret |-> ret]

ValueResult == [status |-> "value", line |-> <<>>]

InitPresets ==
    /\ NoColor \in BOOLEAN
    /\ std = [Formatter |-> Nil, Level |-> "info", ReportCaller |-> FALSE]
    /\ slogH = OptionsHeap
    /\ call = PresetCall("init", 0)
    /\ result = NoResult

\* opts := options.Default(), and the like
CallPreset(name) ==
    /\ Len(slogH.opts) < MaxOptions
    /\ slogH' = Preset(name, slogH).heap
    /\ call' = PresetCall(name, Preset(name, slogH).ret)
    /\ result' = ValueResult
    /\ UNCHANGED <<NoColor, std>>

\* opts.Coloured = false, for options a preset returned
SetColoured(j) ==
    /\ slogH.opts[j].Coloured
    /\ slogH' = [slogH EXCEPT !.opts[j].Coloured = FALSE]
    /\ call' = PresetCall("SetColoured", j)
    /\ result' = ValueResult
    /\ UNCHANGED <<NoColor, std>>

\* opts.Colours.Message = &colours.Colour{...}, and the like
SetColour(j, element, c) ==
    /\ slogH.opts[j].Colours # 0
    /\ slogH' = [slogH EXCEPT !.colours[slogH.opts[j].Colours][element] = c]
    /\ call' = PresetCall("SetColour", j)
    /\ result' = ValueResult
    /\ UNCHANGED <<NoColor, std>>

\* opts := options.<preset>(); opts.Logger = options.LogRUs;
\* zylog.SetupLogging(opts). The options object is not used afterwards and
\* is left out of the heap.
SetupFromPreset(name, now) ==
    LET p == Preset(name, slogH)
    IN  /\ std.Formatter = Nil
        /\ SetupLogRUs([OptionsAt(p.heap, p.ret) EXCEPT !.Logger = LogRUs], now)

NextPresets ==
    \/ \E name \in PresetNames : CallPreset(name)
    \/ \E j \in 1..Len(slogH.opts) :
          \/ SetColoured(j)
          \/ \E c \in {CustomColor, ResetColor} : SetColour(j, "Message", c)
    \/ \E name \in PresetNames, now \in Instants : SetupFromPreset(name, now)

SpecPresets == InitPresets /\ [][NextPresets]_vars

----------------------------------------------------------------------------
(* What the claims speak of: the record and configuration of the           *)
(* formatting call that ran last, whichever backend made it                *)

IsFormatting == call.via \in {"Format", "Handle"}
Produced == result.status = "line"

RecTime == IF call.via = "Format" THEN call.entry.Time ELSE call.r.Time

RecTimestampFormat ==
    IF call.via = "Format" THEN call.f.TimestampFormat
    ELSE call.h.opts.TimestampFormat

\* The level text handed to ColorLevel
RecLevelText ==
    IF call.via = "Format" THEN ToUpper(LogrusLevelString(call.entry.Level))
    ELSE slogLevelToString(call.r.Level)

RecPad ==
    IF call.via = "Format"
    THEN <<call.f.PadLevel, call.f.PadAmount, call.f.PadSide>>
    ELSE <<call.h.opts.PadLevel, call.h.opts.PadAmount, call.h.opts.PadSide>>

\* The caller of the record: nil when caller reporting is off or there is none
RecCaller ==
    IF call.via = "Format"
    THEN (IF call.reportCaller THEN call.entry.Caller ELSE Nil)
    ELSE (IF call.h.opts.ReportCaller THEN call.r.PC ELSE Nil)

RecMessage == IF call.via = "Format" THEN call.entry.Message ELSE call.r.Message

RecSeparator ==
    IF call.via = "Format" THEN call.f.MsgSeparator ELSE call.h.opts.MsgSeparator

\* The attributes in the order they were written, as pairs of texts
RecAttrs ==
    IF call.via = "Format"
    THEN [i \in 1..Len(call.order) |->
            [Key |-> call.order[i],
             Value |-> SprintV(call.entry.Data[call.order[i]])]]
    ELSE LET all == call.h.attrs \o call.r.Attrs
         IN  [i \in 1..Len(all) |->
                [Key |-> all[i].Key, Value |-> SprintV(all[i].Value)]]

\* The arrow of the line format: space, U+25B6 (black right-pointing
\* triangle), space
ArrowGlyph == <<" ", "U+25B6", " ">>

RECURSIVE PlainAttrs(_)
PlainAttrs(attrs) ==
    IF attrs = <<>> THEN <<>>
    ELSE Head(attrs).Key \o <<"=", "{">> \o Head(attrs).Value \o <<"}">>
         \o (IF Len(attrs) > 1 THEN <<",", " ">> ELSE <<>>)
         \o PlainAttrs(Tail(attrs))

\* The documented line, uncoloured, with the given arrow
PlainLine(arrow) ==
    FormatTime(RecTime, ToTimeFormat(RecTimestampFormat))
    \o <<" ">>
    \o PadLevelText(RecLevelText, RecPad[1], RecPad[2], RecPad[3])
    \o (IF RecCaller # Nil
        THEN <<" ", "[">> \o RecCaller[1].Function \o <<":">>
             \o Itoa(RecCaller[1].Line) \o <<"]">>
        ELSE <<>>)
    \o (IF RecMessage # <<>> THEN arrow \o RecMessage ELSE <<>>)
    \o (IF RecAttrs # <<>> THEN RecSeparator \o PlainAttrs(RecAttrs) ELSE <<>>)
    \o <<"\n">>

EndsInOneNewline(s) ==
    /\ Len(s) >= 1
    /\ s[Len(s)] = "\n"
    /\ Len(s) >= 2 => s[Len(s) - 1] # "\n"

----------------------------------------------------------------------------
(* C1 *)

\* C1: formatting never fails: every call of LogLine.Format and of
\* SLogHandler.Handle, for every record and configuration, completes without
\* panic and produces a line that ends in exactly one newline.
C1_FormattingNeverFails ==
    IsFormatting => Produced /\ EndsInOneNewline(result.line)

----------------------------------------------------------------------------
(* C2 *)

\* The record of the end-to-end scenario: level Error, message "disk full",
\* caller (svc.Write, 88), attribute (path, /tmp), no padding, separator ": "
IsScenario ==
    /\ RecLevelText = Error
    /\ RecMessage = <<"disk", " ", "full">>
    /\ RecCaller = Ptr([Function |-> <<"svc.Write">>, Line |-> 88])
    /\ RecAttrs = <<[Key |-> <<"path">>, Value |-> <<"/tmp">>]>>
    /\ ~RecPad[1]
    /\ RecSeparator = <<":", " ">>

ScenarioLine ==
    FormatTime(RecTime, ToTimeFormat(RecTimestampFormat))
    \o <<" ", "E", "R", "R", "O", "R", " ", "[", "svc.Write", ":", "8", "8", "]",
         " ", "U+25B6", " ", "disk", " ", "full", ":", " ",
         "path", "=", "{", "/tmp", "}", "\n">>

\* C2: the formatted line is the concatenation, in this order, of timestamp,
\* one space, level tag, " [function:line]" if a caller is present, the arrow
\* " U+25B6 " and the message if the message is not empty, the separator and
\* the attributes as key={value} joined by ", " if there are attributes, and
\* a newline; with colours disabled the scenario record gives exactly
\* "<time> ERROR [svc.Write:88] U+25B6 disk full: path={/tmp}\n".
C2_LineIsTheDocumentedConcatenation ==
    IsFormatting /\ Produced =>
        /\ Visible(result.line) = PlainLine(ArrowGlyph)
        /\ IsScenario /\ call.noColor => result.line = ScenarioLine

----------------------------------------------------------------------------
(* C3 *)

\* C3: global disable dominance: while colouring is globally disabled, which
\* is how a setup with Coloured = false leaves the process-wide switch, every
\* formatted line is plain text without any colour escape, whatever the
\* per-element overrides are.
C3_GlobalDisableDominance ==
    /\ call.op = "SetupLogRUs" /\ call.via = "Format" =>
           NoColor = call.f.DisableColors
    /\ call.op = "SetupSlog" /\ call.via = "Handle" =>
           NoColor = ~call.h.opts.Coloured
    /\ IsFormatting /\ Produced /\ NoColor => ~HasEscape(result.line)

\* A line was formatted with colouring globally disabled by a logger whose
\* Colours give an element a colour of its own
C3_Witness ==
    /\ call.via = "Format"
    /\ Produced
    /\ NoColor
    /\ call.f.DisableColors
    /\ call.f.Colours = Override(ColoursDefault, "LevelError", CustomColor)
    /\ call.entry.Level = "error"

----------------------------------------------------------------------------
(* The documented colouring of a line, element by element                  *)

\* The element of Colours that colours a level tag
LevelElement(tag) ==
    CASE tag = Trace -> "LevelTrace"
      [] tag = Debug -> "LevelDebug"
      [] tag = Info -> "LevelInfo"
      [] tag = Warn \/ tag = Warning -> "LevelWarn"
      [] tag = Error -> "LevelError"
      [] tag = Fatal -> "LevelFatal"
      [] tag = Panic -> "LevelPanic"

\* The colour that applies to element e: the override, or for a nil override
\* either nothing or the built-in default, as nilAsDefault says
Applicable(colours, e, nilAsDefault) ==
    IF colours[1][e] = Nil /\ nilAsDefault THEN ColorsDefault[1][e]
    ELSE colours[1][e]

IsColoured(c) == c # Nil /\ c # ResetColor

\* Element e showing text: plain, or between the escapes of its colour
Rendered(colours, e, text, noColor, nilAsDefault) ==
    LET c == Applicable(colours, e, nilAsDefault)
    IN  IF noColor \/ ~IsColoured(c) THEN text
        ELSE <<EscOn(SelectSeq(<<c[1].Fg, c[1].Bg>>, LAMBDA a : a # Reset))>>
             \o text \o <<EscOff>>

RECURSIVE RenderedAttrs(_, _, _, _)
RenderedAttrs(attrs, colours, noColor, nilAsDefault) ==
    IF attrs = <<>> THEN <<>>
    ELSE Rendered(colours, "AttrKey", Head(attrs).Key, noColor, nilAsDefault)
         \o <<"=", "{">>
         \o Rendered(colours, "AttrValue", Head(attrs).Value, noColor, nilAsDefault)
         \o <<"}">>
         \o (IF Len(attrs) > 1 THEN <<",", " ">> ELSE <<>>)
         \o RenderedAttrs(Tail(attrs), colours, noColor, nilAsDefault)

\* The line LogLine.Format is documented to give for the call that ran last
ExpectedFormatLine(nilAsDefault) ==
    LET colours == call.f.Colours
        R(e, text) == Rendered(colours, e, text, call.noColor, nilAsDefault)
        tag == PadLevelText(RecLevelText, RecPad[1], RecPad[2], RecPad[3])
    IN  R("Timestamp", FormatTime(RecTime, ToTimeFormat(RecTimestampFormat)))
        \o <<" ">>
        \o R(LevelElement(TrimSpace(tag)), tag)
        \o (IF RecCaller # Nil
            THEN <<" ", "[">> \o R("CallerFunction", RecCaller[1].Function)
                 \o <<":">> \o R("CallerLine", Itoa(RecCaller[1].Line)) \o <<"]">>
            ELSE <<>>)
        \o (IF RecMessage # <<>>
            THEN R("Arrow", ArrowText) \o R("Message", RecMessage) ELSE <<>>)
        \o (IF RecAttrs # <<>>
            THEN RecSeparator
                 \o RenderedAttrs(RecAttrs, colours, call.noColor, nilAsDefault)
            ELSE <<>>)
        \o <<"\n">>

\* The elements the line of the call that ran last shows, in order
ElementsShown ==
    <<"Timestamp", LevelElement(RecLevelText)>>
    \o (IF RecCaller # Nil THEN <<"CallerFunction", "CallerLine">> ELSE <<>>)
    \o (IF RecMessage # <<>> THEN <<"Arrow", "Message">> ELSE <<>>)
    \o Concat([i \in 1..Len(RecAttrs) |-> <<"AttrKey", "AttrValue">>])

\* How many colour-on escapes a text holds
EscOnCount(s) == Cardinality({i \in 1..Len(s) : IsEscape(s[i]) /\ s[i] # EscOff})

----------------------------------------------------------------------------
(* C4 *)

UsesNilOverride ==
    /\ call.via = "Format"
    /\ Produced
    /\ ~call.noColor
    /\ \E i \in 1..Len(ElementsShown) : call.f.Colours[1][ElementsShown[i]] = Nil

----------------------------------------------------------------------------
(* C5 *)

\* C5: a nil Colours configuration uses the default colours: a logger set up
\* with Colours = nil formats every record, and the line is the one the
\* same logger gives with Colours = Default().
C5_NilColoursUseDefaults ==
    /\ call.via = "Format" /\ call.f.Colours = Nil =>
           result = FormatResult([call.f EXCEPT !.Colours = ColoursDefault],
                                 call.entry, call.reportCaller, call.order,
                                 call.noColor)
    /\ call.via = "Handle" /\ call.h.opts.Colours = Nil =>
           result = LineResult(Handle([call.h EXCEPT !.opts.Colours = ColoursDefault],
                                      call.r, call.noColor))

----------------------------------------------------------------------------
(* C6 *)

UsesResetOverride ==
    /\ call.via = "Format"
    /\ Produced
    /\ ~call.noColor
    /\ \E i \in 1..Len(ElementsShown) :
          call.f.Colours[1][ElementsShown[i]] = ResetColor

----------------------------------------------------------------------------
(* C7, C8, C9: ColorLevel *)

ReturnsLevel == call.op = "ColorLevel" /\ Produced

PadsLevel == ReturnsLevel /\ call.padLevel /\ call.padAmount > 0

Fill(n) == [i \in 1..n |-> " "]

\* text filled with spaces up to width on the side named
Filled(text, width, side) ==
    LET fill == Fill(IF width > Len(text) THEN width - Len(text) ELSE 0)
    IN  IF side = "left" THEN fill \o text ELSE text \o fill

\* The visible tag of the call that ran last
ExpectedTag ==
    IF call.padLevel /\ call.padAmount > 0
    THEN Filled(call.lvl, call.padAmount, call.padSide)
    ELSE call.lvl

\* C7 as claimed: with padding enabled and a width above 0, ColorLevel fills
\* with spaces on the left if the side is exactly "left" and on the right for
\* every other side, and the visible tag has exactly the configured width.
C7_PaddedTagHasExactlyTheWidth ==
    PadsLevel =>
        /\ Visible(result.line) = Filled(call.lvl, call.padAmount, call.padSide)
        /\ Len(Visible(result.line)) = call.padAmount

\* C7 as amended: with padding enabled and a width above 0, ColorLevel fills
\* with spaces on the left if the side is exactly "left" and on the right for
\* every other side; the visible tag has the configured width when the text
\* is no longer than that, and is the unpadded text when it is longer.
C7_PaddedTagHasAtLeastTheWidth ==
    PadsLevel =>
        /\ Visible(result.line) = Filled(call.lvl, call.padAmount, call.padSide)
        /\ Len(Visible(result.line)) =
               (IF Len(call.lvl) > call.padAmount THEN Len(call.lvl)
                ELSE call.padAmount)
        /\ call.lvl = Info /\ call.padAmount = 7 /\ call.padSide = "left" =>
               Visible(result.line) = <<" ", " ", " ", "I", "N", "F", "O">>

\* WARNING padded to width 5 stays seven characters wide
C7_Witness ==
    /\ PadsLevel
    /\ call.lvl = Warning
    /\ call.padAmount = 5
    /\ call.padSide = "left"
    /\ Visible(result.line) = Warning
    /\ HasEscape(result.line)

\* C8 as claimed: the output of ColorLevel without its escapes is the padded
\* input; an escape is added if and only if colours are enabled, the trimmed
\* text is a known level tag and the colour of that level is not the reset
\* sentinel; any other text is returned padded and uncoloured.
C8_EscapeIffKnownAndNotReset ==
    ReturnsLevel =>
        /\ Visible(result.line) = ExpectedTag
        /\ HasEscape(result.line) <=>
               /\ ~NoColor
               /\ TrimSpace(call.lvl) \in LevelTags
               /\ call.colours[1][LevelElement(TrimSpace(call.lvl))] # ResetColor

\* C8 as amended: the output of ColorLevel without its escapes is the padded
\* input; an escape is added if and only if colours are enabled, the trimmed
\* text is a known level tag and the colour of that level is neither nil nor
\* the reset sentinel; any other text is returned padded and uncoloured.
C8_EscapeIffKnownAndColoured ==
    ReturnsLevel =>
        /\ Visible(result.line) = ExpectedTag
        /\ HasEscape(result.line) <=>
               /\ ~NoColor
               /\ TrimSpace(call.lvl) \in LevelTags
               /\ IsColoured(call.colours[1][LevelElement(TrimSpace(call.lvl))])
        /\ TrimSpace(call.lvl) \notin LevelTags => result.line = ExpectedTag

\* A padded FATAL in its colour
C8_Witness ==
    /\ ReturnsLevel
    /\ ~NoColor
    /\ call.lvl = Fatal
    /\ call.padLevel /\ call.padAmount = 7 /\ call.padSide = "right"
    /\ call.colours = ColorsDefault
    /\ result.line = <<EscOn(<<FgHiRed>>)>> \o Fatal \o <<" ", " ", EscOff>>

Escapes(s) == SelectSeq(s, IsEscape)

Synonym(tag) == IF tag = Warn THEN Warning ELSE Warn

\* C9: for every colour configuration, the level tags WARN and WARNING are
\* rendered with the same colour.
C9_WarnAndWarningShareAColour ==
    ReturnsLevel /\ call.lvl \in {Warn, Warning} =>
        /\ ~ColorLevelPanics(Synonym(call.lvl), call.padLevel, call.padAmount,
                             call.padSide, call.colours)
        /\ Escapes(result.line) =
               Escapes(ColorLevel(Synonym(call.lvl), call.padLevel, call.padAmount,
                                  call.padSide, call.colours, NoColor))
        /\ ~NoColor /\ IsColoured(call.colours[1].LevelWarn) =>
               Escapes(result.line) # <<>>

\* WARNING under a configuration whose LevelWarning differs from LevelWarn
C9_Witness ==
    /\ ReturnsLevel
    /\ ~NoColor
    /\ call.lvl = Warning
    /\ call.colours = Override(ColorsDefault, "LevelWarning", CustomColor)
    /\ Escapes(result.line) = <<EscOn(<<FgHiYellow>>), EscOff>>

----------------------------------------------------------------------------
(* C10 *)

ArrowRunes == {"U+25B6", "U+00E2", "U+2013", "U+00B6"}

\* A colour switched on and off again around nothing
HasEmptyColouring(s) ==
    \E i \in 1..(Len(s) - 1) : IsEscape(s[i]) /\ s[i] # EscOff /\ s[i + 1] = EscOff

\* C10: for a record whose message is empty, the formatted line contains no
\* arrow glyph and no double space where the arrow would have been, whatever
\* the caller and the attributes are: after the level tag and the caller come
\* the separator and the attributes, or the end of the line.
C10_EmptyMessageLeavesNoArrow ==
    IsFormatting /\ Produced /\ RecMessage = <<>> =>
        /\ \A i \in 1..Len(result.line) : result.line[i] \notin ArrowRunes
        /\ Visible(result.line) = PlainLine(<<>>)
        /\ ~HasEmptyColouring(result.line)

\* An empty message with a caller and attributes
C10_Witness ==
    /\ IsFormatting /\ Produced
    /\ RecMessage = <<>>
    /\ RecCaller # Nil
    /\ RecAttrs # <<>>

----------------------------------------------------------------------------
(* C11 *)

Positions(s, tok) == {i \in 1..Len(s) : s[i] = tok}

\* C11: a line has no "[" / "]" caller bracket when the record has no caller
\* (caller reporting disabled, or no program counter on the slog record); the
\* bracket, holding function and line, appears exactly when a caller is
\* present and caller reporting is enabled.
C11_CallerBracketIffCaller ==
    IsFormatting /\ Produced =>
        LET v == Visible(result.line)
            open == Positions(v, "[")
            close == Positions(v, "]")
        IN  IF RecCaller = Nil THEN open = {} /\ close = {}
            ELSE /\ Cardinality(open) = 1 /\ Cardinality(close) = 1
                 /\ \A i \in open, j \in close :
                       /\ i > 1 /\ v[i - 1] = " "
                       /\ SubSeq(v, i + 1, j - 1) =
                              RecCaller[1].Function \o <<":">>
                              \o Itoa(RecCaller[1].Line)

\* A slog record without a program counter under a handler that reports
\* callers
C11_Witness ==
    /\ call.via = "Handle" /\ Produced
    /\ call.h.opts.ReportCaller
    /\ call.r.PC = Nil
    /\ call.r.Message # <<>>

----------------------------------------------------------------------------
(* C12 *)

\* C12: in both backends the attribute trailer lists the attributes of the
\* record in insertion order: the slog line lists the handler's and the
\* record's attributes as they were added, and the logrus line lists the
\* fields in whichever order they were put into the entry, so
\* [(b,2),(a,1)] reads "b={2}, a={1}".
C12_AttributesInInsertionOrder ==
    /\ call.via = "Handle" /\ Produced =>
           Visible(result.line) = PlainLine(ArrowText)
    /\ call.via = "Format" /\ Produced =>
           \A inserted \in Perms(DOMAIN call.entry.Data) :
               result.line = LogLineFormat(call.f, call.entry, call.reportCaller,
                                           inserted, call.noColor)

----------------------------------------------------------------------------
(* C13, C14: two calls *)

Min(a, b) == IF a < b THEN a ELSE b

\* The line the call of caller c gives when nothing else runs
LineAlone(c) ==
    IF c.via = "Format"
    THEN LogLineFormat(c.cfg, c.rec, c.reportCaller, c.order, NoColor)
    ELSE Handle(c.cfg, c.rec, NoColor)

SameCallTwice ==
    /\ call.op = "Calls"
    /\ call.callers[1].via = call.callers[2].via
    /\ call.callers[1].cfg = call.callers[2].cfg
    /\ call.callers[1].rec = call.callers[2].rec
    /\ Len(result.out) = 2

\* C13: determinism: formatting the same record with the same configuration
\* twice yields byte-identical output, in both backends and for any number
\* of attributes.
C13_SameRecordSameBytes ==
    SameCallTwice => result.out[1].line = result.out[2].line

\* C14: formatting calls share no mutable state: in any interleaving of two
\* Handle / Format calls, on handlers with the same or different
\* configurations, each call emits exactly the line it gives when it runs
\* alone, and what a call has written so far is untouched by the other.
C14_EachCallAsIfAlone ==
    call.op = "Calls" =>
        /\ \A k \in 1..Len(result.out) :
              result.out[k].line = LineAlone(call.callers[result.out[k].caller])
        /\ \A i \in 1..2 :
              LET c == call.callers[i]
                  parts == PartsOf(c, NoColor)
              IN  result.bufs[i] =
                      Concat(SubSeq(parts, 1, Min(c.pc - 1, Len(parts))))
        /\ Len(result.out) = 2 => result.out[1].caller # result.out[2].caller

\* One call has emitted its line while the other, on another backend and
\* with another padding, is in the middle of writing its own
C14_Witness ==
    /\ call.op = "Calls"
    /\ Len(result.out) = 1
    /\ result.out[1].caller = 1
    /\ call.callers[1].via = "Handle"
    /\ call.callers[2].via = "Format"
    /\ call.callers[1].cfg.opts.PadLevel # call.callers[2].cfg.PadLevel
    /\ call.callers[2].pc = 3
    /\ result.bufs[2] # <<>>

----------------------------------------------------------------------------
(* C15, C16, C17: setup *)

IsSetup == call.op \in {"SetupLogging", "SetupLogRUs", "SetupSlog"}

\* C15: the configuration is immutable after construction: no library
\* operation changes any field of the options object it was given, so after
\* a setup the object is as the caller wrote it and the handler's view of
\* it is that same content.
C15_OptionsAreNotWritten ==
    /\ IsSetup => call.after = call.opts
    /\ slogH # Nil /\ call.op = "SetupSlog" => slogH[1].opts = call.opts

OutputOk == call.opts.Output \in {StdOut, StdErr}

LevelNames == {"panic", "fatal", "error", "warn", "warning", "info", "debug", "trace"}

LevelOk == call.opts.Level \in LevelNames

StdUntouched == std = [Formatter |-> Nil, Level |-> "info", ReportCaller |-> FALSE]

\* The closing "Logging initialized." of SetupLogRUs is formatted and fails
ClosingLinePanics ==
    /\ call.opts.Colours = Nil
    /\ call.opts.Level \in {"info", "debug", "trace"}

C17_InvalidConfigurationIsSignalled ==
    /\ IsSetup /\ call.opts.Logger \in {LogRUs, Slog} /\ ~(OutputOk /\ LevelOk) =>
           result.status \in {"panic", "error"} /\ ~call.ret.returned
    /\ call.op = "Log" /\ call.via = "Handle" => Produced

\* C17 as amended: an unsupported output and the filesystem output make the
\* setup of either backend panic, and a level name logrus does not know
\* makes the logrus setup panic, all at setup time; a level name slog does
\* not know is not signalled: the slog setup returns its logger and the
\* handler filters at Info. None of them surfaces when a record is
\* formatted.
C17_InvalidConfigurationAtSetup ==
    /\ IsSetup /\ call.opts.Logger \in {LogRUs, Slog} /\ ~OutputOk =>
           result = PanicResult /\ ~call.ret.returned
    /\ IsSetup /\ call.opts.Logger = LogRUs /\ ~LevelOk =>
           result = PanicResult /\ ~call.ret.returned
    /\ IsSetup /\ call.opts.Logger = Slog /\ ~LevelOk /\ OutputOk =>
           /\ call.ret.returned /\ ~call.ret.err
           /\ result.status = "line"
           /\ \A l \in RecordSlogLevels \cup {SlogLevelDebug - 1, SlogLevelError + 4} :
                 Enabled(slogH[1], l) <=> l >= SlogLevelInfo
    /\ call.op = "Log" /\ call.via = "Handle" => Produced
    /\ call.op = "Log" /\ call.via = "Format" /\ ~Produced => call.f.Colours = Nil

\* A slog setup with a level name that is not known has returned
C17_Witness ==
    /\ call.op = "SetupSlog"
    /\ call.opts.Level = "verbose"
    /\ call.ret.returned
    /\ Produced

----------------------------------------------------------------------------
(* C18 *)

\* The logrus level of the records slog logs at a level
LogrusLevelOf(lvl) ==
    CASE lvl = SlogLevelDebug - 1 -> "trace"
      [] lvl = SlogLevelDebug -> "debug"
      [] lvl = SlogLevelInfo -> "info"
      [] lvl = SlogLevelWarn -> "warning"
      [] lvl = SlogLevelError -> "error"

\* The LogLine formatter SetupLogRUs makes of the options of handler h
FormatterOf(h) ==
    [DisableColors   |-> ~h.opts.Coloured,
     TimestampFormat |-> h.opts.TimestampFormat,
     PadLevel        |-> h.opts.PadLevel,
     PadAmount       |-> h.opts.PadAmount,
     PadSide         |-> h.opts.PadSide,
     MsgSeparator    |-> h.opts.MsgSeparator,
     Colours         |-> h.opts.Colours]

DistinctKeys(attrs) ==
    \A i, j \in 1..Len(attrs) : attrs[i].Key = attrs[j].Key => i = j

\* The logrus entry with the time, level, caller, message and fields of the
\* slog record r
EntryOf(r) ==
    [Time    |-> r.Time,
     Level   |-> LogrusLevelOf(r.Level),
     Message |-> r.Message,
     Caller  |-> r.PC,
     Data    |-> [k \in {r.Attrs[i].Key : i \in 1..Len(r.Attrs)} |->
                     (CHOOSE a \in Range(r.Attrs) : a.Key = k).Value]]

\* A slog call whose record logrus can carry: distinct keys, and a caller
\* whenever callers are reported
Comparable ==
    /\ call.via = "Handle"
    /\ Produced
    /\ call.h.attrs = <<>>
    /\ DistinctKeys(call.r.Attrs)
    /\ call.h.opts.ReportCaller => call.r.PC # Nil

\* C18: backend format consistency: given the same options and records with
\* the same time, level, caller, message and attributes, the slog handler
\* and the logrus formatter produce exactly the same line, for every level
\* both backends support (Trace, Debug, Info, Warn, Error).
C18_BackendsGiveTheSameLine ==
    Comparable =>
        result =
            FormatResult(FormatterOf(call.h), EntryOf(call.r),
                         call.h.opts.ReportCaller,
                         [i \in 1..Len(call.r.Attrs) |-> call.r.Attrs[i].Key],
                         call.noColor)

----------------------------------------------------------------------------
(* C19 *)

\* The default colours as the README and the comments of Colours give them
DocumentedDefaults ==
    Ptr([Timestamp      |-> Ptr(Color(FgHiBlack, Reset)),
         LevelTrace     |-> Ptr(Color(FgHiMagenta, Reset)),
         LevelDebug     |-> Ptr(Color(FgHiCyan, Reset)),
         LevelInfo      |-> Ptr(Color(FgHiGreen, Reset)),
         LevelWarn      |-> Ptr(Color(FgHiYellow, Reset)),
         LevelWarning   |-> Ptr(Color(FgHiYellow, Reset)),
         LevelError     |-> Ptr(Color(FgRed, Reset)),
         LevelFatal     |-> Ptr(Color(FgHiRed, Reset)),
         LevelPanic     |-> Ptr(Color(FgHiWhite, Reset)),
         Message        |-> Ptr(Color(FgGreen, Reset)),
         Arrow          |-> Ptr(Color(FgCyan, Reset)),
         CallerFunction |-> Ptr(Color(FgHiYellow, Reset)),
         CallerLine     |-> Ptr(Color(FgYellow, Reset)),
         AttrKey        |-> Ptr(Color(FgYellow, Reset)),
         AttrValue      |-> Ptr(Color(FgHiYellow, Reset))])

\* C19: the default colour configuration Default() returns gives each
\* element its documented default colour, with no background: so do the
\* options a setup received from options.Default(), and a line formatted
\* under them shows every element in its documented colour.
C19_DefaultColoursAsDocumented ==
    /\ IsSetup /\ call.opts.Colours = OptionsDefault.Colours =>
           call.opts.Colours = DocumentedDefaults
    /\ call.via = "Format" /\ Produced /\ call.f.Colours = ColoursDefault =>
           result.line = LogLineFormat([call.f EXCEPT !.Colours = DocumentedDefaults],
                                       call.entry, call.reportCaller, call.order,
                                       call.noColor)
    /\ ColorsDefault = DocumentedDefaults

----------------------------------------------------------------------------
(* C20 *)

\* The instant t written in the layout the format f stands for
Stamp(t, f) ==
    LET yyyy == ZeroPad(4, t.year)
        mo == ZeroPad(2, t.month)
        dd == ZeroPad(2, t.day)
        hh == ZeroPad(2, t.hour)
        mi == ZeroPad(2, t.minute)
        ss == ZeroPad(2, t.second)
        off == IF t.offset < 0 THEN 0 - t.offset ELSE t.offset
        zone == IF t.offset = 0 THEN <<"Z">>
                ELSE <<IF t.offset < 0 THEN "-" ELSE "+">> \o ZeroPad(2, off \div 60)
                     \o <<":">> \o ZeroPad(2, off % 60)
    IN  CASE f = RFC3339 ->
                yyyy \o <<"-">> \o mo \o <<"-">> \o dd \o <<"T">> \o hh \o <<":">>
                \o mi \o <<":">> \o ss \o zone
          [] f = StandardTimestamp ->
                yyyy \o <<"/">> \o mo \o <<"/">> \o dd \o <<" ">> \o hh \o <<":">>
                \o mi \o <<":">> \o ss
          [] f = TimeOnly -> hh \o <<":">> \o mi \o <<":">> \o ss
          [] OTHER -> yyyy \o mo \o dd \o <<".">> \o hh \o mi \o ss

\* C20: the timestamp format selection is total with Simple as default:
\* RFC3339, Standard, Simple and TimeOnly each select their own layout, the
\* unset value and every other value select the Simple layout
\* (YYYYMMDD.HHmmSS), identically in both backends.
C20_TimestampFormatSelection ==
    IsSetup /\ IsFormatting /\ Produced =>
        LET v == Visible(result.line)
            stamp == Stamp(RecTime, call.opts.TimestampFormat)
        IN  /\ Len(v) > Len(stamp) + 5
            /\ SubSeq(v, 1, Len(stamp)) = stamp
            /\ SubSeq(v, Len(stamp) + 1, Len(stamp) + 5) = <<" ">> \o Info

\* A setup under a format value beside the constants, its line stamped in
\* the Simple layout
C20_Witness ==
    /\ IsSetup /\ IsFormatting /\ Produced
    /\ call.opts.TimestampFormat = TimeOnly + 1
    /\ RecTime.year = 1999
    /\ SubSeq(Visible(result.line), 1, 15) =
           <<"1", "9", "9", "9", "1", "2", "3", "1", ".",
             "2", "3", "5", "9", "5", "9">>

----------------------------------------------------------------------------
(* C21: handlers are not changed by deriving from them *)

Derives ==
    \/ call.op = "WithAttrs"
    \/ call.op = "WithGroup" /\ call.arg.name # <<>>

\* C21: WithAttrs, and WithGroup with a name that is not empty, return a
\* handler that did not exist before and leave the receiver as it was: after
\* any sequence of derivations every handler still shows the attributes and
\* groups it showed when it was made, and Handle on it renders exactly those.
C21_DerivationLeavesReceiverUnchanged ==
    call.op \in {"NewSLogHandler", "WithAttrs", "WithGroup", "Handle"} =>
        /\ Len(call.born) = Len(slogH.handlers)
        /\ \A j \in 1..Len(slogH.handlers) : HandlerAt(slogH, j) = call.born[j]
        /\ Derives => /\ call.ret = Len(slogH.handlers)
                      /\ call.ret # call.recv
        /\ call.op = "Handle" =>
               result.line = Handle(call.born[call.recv], call.r, NoColor)

\* Handle on the first handler, after two handlers were derived from it and
\* a third from one of those: the line has the record's attribute only
C21_Witness ==
    /\ call.op = "Handle"
    /\ call.recv = 1
    /\ Len(slogH.handlers) = 4
    /\ Len(call.trail[2]) = 1 /\ Len(call.trail[3]) = 1 /\ Len(call.trail[4]) = 2
    /\ call.trail[2][1].kind = "attrs" /\ call.trail[3][1].kind = "group"
    /\ call.r.Attrs # <<>>
    /\ Visible(result.line) =
           Visible(Handle([opts |-> OptionsDefault, writer |-> StdOut,
                           attrs |-> <<>>, groups |-> <<>>], call.r, TRUE))

----------------------------------------------------------------------------
(* C22: the colouring of a logger's lines and the other logger's setup *)

\* The Coloured option of the logger that wrote the line of the last call
ColouredOptionOfWriter ==
    IF call.via = "Handle" THEN call.h.opts.Coloured
    ELSE ~call.f.DisableColors

\* C22: whether a logger's lines are coloured depends only on the options
\* that logger was set up with: a line has colour escapes exactly when the
\* logger that wrote it was set up with colours enabled, whatever another
\* logger was set up with before or after.
C22_ColouringIsPerLogger ==
    call.op = "Log" /\ result.status = "line" =>
        (HasEscape(result.line) <=> ColouredOptionOfWriter)

----------------------------------------------------------------------------
(* C23, C24: the levels of the slog handler *)

\* text is name, but for the case of its letters
IsNamed(text, name) ==
    /\ Len(text) = Len(name)
    /\ \A i \in 1..Len(name) :
          \E k \in 1..Len(Lower) : name[i] = Lower[k] /\ text[i] \in {Lower[k], Upper[k]}

\* The thresholds by name, lowest first; warn and warning share one
ThresholdsByName ==
    <<[names |-> {<<"t", "r", "a", "c", "e">>}, min |-> SlogLevelDebug - 1],
      [names |-> {<<"d", "e", "b", "u", "g">>}, min |-> SlogLevelDebug],
      [names |-> {<<"i", "n", "f", "o">>}, min |-> SlogLevelInfo],
      [names |-> {<<"w", "a", "r", "n">>, <<"w", "a", "r", "n", "i", "n", "g">>},
       min |-> SlogLevelWarn],
      [names |-> {<<"e", "r", "r", "o", "r">>}, min |-> SlogLevelError],
      [names |-> {<<"f", "a", "t", "a", "l">>}, min |-> SlogLevelError + 4],
      [names |-> {<<"p", "a", "n", "i", "c">>}, min |-> SlogLevelError + 8]>>

Recognised(text) ==
    \E k \in 1..Len(ThresholdsByName) :
        \E n \in ThresholdsByName[k].names : IsNamed(text, n)

ThresholdOf(text) ==
    IF Recognised(text)
    THEN ThresholdsByName[CHOOSE k \in 1..Len(ThresholdsByName) :
                             \E n \in ThresholdsByName[k].names : IsNamed(text, n)].min
    ELSE SlogLevelInfo

AppliedEnabled == call.op = "Enabled" /\ result.status = "value"

\* C23: Enabled(l) holds exactly when l is at or above the threshold of the
\* configured level name, whatever the case of its letters, with
\* trace < debug < info < warn = warning < error < fatal < panic; a name
\* that is not recognised gives the threshold of info; and a level above an
\* enabled level is enabled.
C23_EnabledFromThreshold ==
    AppliedEnabled =>
        /\ \A k \in 1..(Len(ThresholdsByName) - 1) :
              ThresholdsByName[k].min < ThresholdsByName[k + 1].min
        /\ result.minLevel = ThresholdOf(call.level)
        /\ result.enabled <=> call.lvl >= ThresholdOf(call.level)
        /\ result.enabled =>
              \A l \in SlogLevelInputs :
                  l >= call.lvl =>
                      Enabled([opts |-> [Level |-> CaseLabel(ToLower(call.level))]], l)

\* "Warning" as the configured name and a record exactly at Warn: enabled
C23_Witness ==
    /\ AppliedEnabled
    /\ call.level = <<"W", "a", "r", "n", "i", "n", "g">>
    /\ call.lvl = SlogLevelWarn
    /\ result.enabled

\* C24: for each of the names trace, debug, info, warn, error, fatal and
\* panic a record logged exactly at the threshold of the name is tagged
\* with the name in upper case; for warning the tag is WARN.
C24_ThresholdTaggedWithItsName ==
    AppliedEnabled /\ Recognised(call.level) /\ call.lvl = result.minLevel =>
        IF IsNamed(call.level, <<"w", "a", "r", "n", "i", "n", "g">>)
        THEN result.line = Warn
        ELSE result.line = ToUpper(call.level)

\* "fatal" and a record at slog.LevelError + 4: FATAL
C24_Witness ==
    /\ AppliedEnabled
    /\ call.level = <<"f", "a", "t", "a", "l">>
    /\ call.lvl = SlogLevelError + 4
    /\ result.minLevel = call.lvl
    /\ result.line = Fatal

----------------------------------------------------------------------------
(* C25, C26: the attributes of derived handlers in the line *)

\* The attributes the WithAttrs calls of a trail added, in the order of the
\* calls, each with the groups opened by the WithGroup calls before it
RECURSIVE TrailAttrs(_, _)
TrailAttrs(trail, groups) ==
    IF trail = <<>> THEN <<>>
    ELSE IF Head(trail).kind = "group"
    THEN TrailAttrs(Tail(trail), Append(groups, Head(trail).name))
    ELSE [i \in 1..Len(Head(trail).attrs) |->
            [Key |-> Head(trail).attrs[i].Key,
             Value |-> Head(trail).attrs[i].Value, Groups |-> groups]]
         \o TrailAttrs(Tail(trail), groups)

\* The groups a trail opened, in order
RECURSIVE TrailGroups(_)
TrailGroups(trail) ==
    IF trail = <<>> THEN <<>>
    ELSE (IF Head(trail).kind = "group" THEN <<Head(trail).name>> ELSE <<>>)
         \o TrailGroups(Tail(trail))

\* Handler-level attributes first, then the record's own, which lie in
\* every group of the handler
AttrsOfLastHandle ==
    TrailAttrs(call.trail[call.recv], <<>>)
    \o [i \in 1..Len(call.r.Attrs) |->
           [Key |-> call.r.Attrs[i].Key, Value |-> call.r.Attrs[i].Value,
            Groups |-> TrailGroups(call.trail[call.recv])]]

\* The token before every "=" of a text: the keys without their groups
RECURSIVE BaseKeysIn(_)
BaseKeysIn(s) ==
    IF Len(s) < 2 THEN <<>>
    ELSE (IF s[2] = "=" THEN <<<<s[1]>>>> ELSE <<>>) \o BaseKeysIn(Tail(s))

\* The texts between "{" and "}" of a text, cur being the one that is open
RECURSIVE BracedIn(_, _, _)
BracedIn(s, open, cur) ==
    IF s = <<>> THEN <<>>
    ELSE IF ~open THEN BracedIn(Tail(s), Head(s) = "{", <<>>)
    ELSE IF Head(s) = "}" THEN <<cur>> \o BracedIn(Tail(s), FALSE, <<>>)
    ELSE BracedIn(Tail(s), TRUE, Append(cur, Head(s)))

HandledByDerived == call.op = "Handle" /\ result.status = "line" /\ call.recv >= 1

\* C25: the attribute trailer of the slog handler lists the handler-level
\* attributes first, in the order the WithAttrs calls added them (earlier
\* calls first, argument order within a call), and then the record's own
\* attributes in their order; no attribute is dropped or duplicated.
C25_HandlerAttributesThenRecordAttributes ==
    HandledByDerived =>
        LET expected == AttrsOfLastHandle
            line == Visible(result.line)
        IN  /\ BaseKeysIn(line) = [i \in 1..Len(expected) |-> expected[i].Key]
            /\ BracedIn(line, FALSE, <<>>) =
                   [i \in 1..Len(expected) |-> SprintV(expected[i].Value)]

\* A handler made by WithAttrs(a) and then WithAttrs(b, a) handles a record
\* with the attribute path: a, b, a, path
C25_Witness ==
    /\ HandledByDerived
    /\ Len(call.trail[call.recv]) = 2
    /\ call.trail[call.recv][1] = AttrsStep(<<[Key |-> <<"a">>, Value |-> IntValue(1)]>>)
    /\ call.trail[call.recv][2].kind = "attrs"
    /\ Len(call.trail[call.recv][2].attrs) = 2
    /\ BaseKeysIn(Visible(result.line)) = <<<<"a">>, <<"b">>, <<"a">>, <<"path">>>>
    /\ BracedIn(Visible(result.line), FALSE, <<>>) =
           <<<<"1">>, <<"2">>, <<"1">>, <<"/tmp">>>>

\* groups joined by ".", with a "." after them
RECURSIVE DottedPrefix(_)
DottedPrefix(groups) ==
    IF groups = <<>> THEN <<>>
    ELSE Head(groups) \o <<".">> \o DottedPrefix(Tail(groups))

\* The trailer with every key qualified by the groups of its attribute
QualifiedTrailer(attrs, separator) ==
    IF attrs = <<>> THEN <<>>
    ELSE separator
         \o PlainAttrs([i \in 1..Len(attrs) |->
                          [Key |-> DottedPrefix(attrs[i].Groups) \o attrs[i].Key,
                           Value |-> SprintV(attrs[i].Value)]])

\* C26: group qualification follows the order of derivation: an attribute
\* attached with WithAttrs before a later WithGroup(g) is rendered without
\* the prefix g, and only the attributes added after WithGroup(g), at the
\* handler or on the record, are rendered with their key prefixed by the
\* groups joined with "."; WithGroup("") returns the receiver itself.
C26_GroupsQualifyLaterAttributesOnly ==
    /\ HandledByDerived =>
          LET trailer == QualifiedTrailer(AttrsOfLastHandle,
                                          HandlerAt(slogH, call.recv).opts.MsgSeparator)
              line == Visible(result.line)
          IN  /\ Len(line) > Len(trailer)
              /\ SubSeq(line, Len(line) - Len(trailer), Len(line) - 1) = trailer
    /\ call.op = "WithGroup" /\ call.arg.name = <<>> =>
          /\ call.ret = call.recv
          /\ Len(slogH.handlers) = Len(call.born)

----------------------------------------------------------------------------
(* C27: what Handle hands to the sink *)

\* The writes caller i has issued on the sink so far
WritesOf(i) == {k \in 1..Len(result.out) : result.out[k].caller = i}

NewlinesIn(s) == Cardinality({k \in 1..Len(s) : s[k] = "\n"})

\* C27: each Handle call issues exactly one Write on the sink, when it has
\* built its line, and that Write carries the whole line with its newline;
\* so with two goroutines in Handle on a sink whose Write is atomic, the
\* sink receives whole lines, none split by bytes of the other.
C27_OneWriteOfAWholeLinePerHandle ==
    call.op = "Calls" =>
        \A i \in 1..2 :
            LET c == call.callers[i]
            IN  c.via = "Handle" =>
                    /\ Cardinality(WritesOf(i)) =
                           (IF c.pc > Len(HandleParts(c.cfg, c.rec, NoColor)) + 1
                            THEN 1 ELSE 0)
                    /\ \A k \in WritesOf(i) :
                          LET line == result.out[k].line
                          IN  /\ Len(line) > 1
                              /\ line[Len(line)] = "\n"
                              /\ NewlinesIn(line) = 1
                              /\ line = Handle(c.cfg, c.rec, NoColor)

\* Two Handle calls, interleaved, have both written: two writes, the second
\* caller's first, each a line with attributes
C27_Witness ==
    /\ call.op = "Calls"
    /\ call.callers[1].via = "Handle" /\ call.callers[2].via = "Handle"
    /\ Len(result.out) = 2
    /\ result.out[1].caller = 2
    /\ call.callers[1].rec.Attrs # <<>>
    /\ call.callers[1].cfg.opts.PadLevel # call.callers[2].cfg.opts.PadLevel
    /\ NewlinesIn(result.out[1].line \o result.out[2].line) = 2

----------------------------------------------------------------------------
(* C28: padding and the length of the tag *)

\* part occurs in s as one piece
Contains(s, part) ==
    \E k \in 0..(Len(s) - Len(part)) : SubSeq(s, k + 1, k + Len(part)) = part

\* C28: padding never truncates: for every level text and every padding
\* setting the visible level tag contains the whole level text; it has the
\* length max(width, length of the text) when padding is enabled with a
\* width above 0, and is the text unchanged when padding is disabled or the
\* width is 0 or less.
C28_PaddingNeverTruncates ==
    ReturnsLevel =>
        LET tag == Visible(result.line)
        IN  /\ Contains(tag, call.lvl)
            /\ IF call.padLevel /\ call.padAmount > 0
               THEN /\ Len(tag) >= call.padAmount
                    /\ Len(tag) >= Len(call.lvl)
                    /\ Len(tag) \in {call.padAmount, Len(call.lvl)}
               ELSE tag = call.lvl

\* WARNING with padding to width 3 on the left and colours off: WARNING
C28_Witness ==
    /\ ReturnsLevel
    /\ call.lvl = Warning
    /\ call.padLevel /\ call.padAmount = 3 /\ call.padSide = "left"
    /\ NoColor
    /\ result.line = Warning

----------------------------------------------------------------------------
(* C29: the presets *)

\* What a preset is documented to return
DocumentedPreset(name) ==
    CASE name = "Default" -> OptionsDefault
      [] name = "WithLevelPadding" -> [OptionsDefault EXCEPT !.PadLevel = TRUE]
      [] name = "NoCaller" -> [OptionsDefault EXCEPT !.ReportCaller = FALSE]

\* C29: the presets give independent values: whatever was done to options
\* returned earlier, replacing an entry of their Colours included, a call of
\* Default(), NoCaller() or WithLevelPadding() returns the same options as
\* ever, and a logger set up from them has the default colours.
C29_PresetsAreIndependent ==
    /\ call.op \in PresetNames => OptionsAt(slogH, call.ret) = DocumentedPreset(call.op)
    /\ call.op = "SetupLogRUs" /\ call.via = "Format" =>
          call.f.Colours = ColoursDefault

----------------------------------------------------------------------------
(* C30: the shape of the attribute trailer *)

\* How often part occurs in s
Occurrences(s, part) ==
    Cardinality({k \in 0..(Len(s) - Len(part)) :
                    SubSeq(s, k + 1, k + Len(part)) = part})

\* C30: the configured separator is written exactly once, and only when
\* the record has at least one attribute, with or without a message; n
\* attributes are rendered as n items key={value} with exactly n - 1
\* joiners ", ", and nothing stands between the last item and the newline.
C30_TrailerShape ==
    IsFormatting /\ Produced /\ call.op \in {"Log", "SetupLogRUs", "SetupSlog"} =>
        LET line == Visible(result.line)
            n == Len(RecAttrs)
        IN  /\ Occurrences(line, RecSeparator) = (IF n > 0 THEN 1 ELSE 0)
            /\ Occurrences(line, <<"=", "{">>) = n
            /\ Occurrences(line, <<"}">>) = n
            /\ Occurrences(line, <<",", " ">>) = (IF n > 0 THEN n - 1 ELSE 0)
            /\ n > 0 =>
                  /\ line[Len(line) - 1] = "}"
                  /\ \E k \in 1..Len(line) :
                        /\ SubSeq(line, k, k + Len(RecSeparator) - 1) = RecSeparator
                        /\ SubSeq(line, k + Len(RecSeparator),
                                  k + Len(RecSeparator) + Len(RecAttrs[1].Key)) =
                               RecAttrs[1].Key \o <<"=">>
            /\ line[Len(line)] = "\n"

\* A slog record with two attributes and no message, with the separator
\* " || ": the separator follows the level tag
C30_Witness ==
    /\ call.op = "Log" /\ call.via = "Handle" /\ Produced
    /\ RecMessage = <<>>
    /\ Len(RecAttrs) = 2
    /\ RecSeparator = <<" ", "|", "|", " ">>
    /\ Occurrences(Visible(result.line), <<",", " ">>) = 1

====
